---- MODULE Spec2Model ----
(***************************************************************************)
(* Model of thin-wall-topography: GMesh (src/python/GMesh.py) and          *)
(* ThinWalls (src/python/ThinWalls.py).                                    *)
(*                                                                         *)
(* Numbers.  Coordinates and elevations are floating point in the source.  *)
(* Here they are fixed point: a coordinate is an integer number of ticks,  *)
(* Deg ticks to the degree.  Deg is a power of two, so the sums, halvings  *)
(* and quarterings of the planar refinement are exact on the meshes of the *)
(* model, as they are in binary floating point.  The spherical midpoint    *)
(* (trigonometry in the source) is evaluated in fixed point, see           *)
(* mean_from_xyz.                                                          *)
(*                                                                         *)
(* Arrays.  A numpy 1-D array is a sequence, a 2-D array a sequence of     *)
(* rows.  Source indices are 0-based: At(A, j, i) is A[j, i].              *)
(***************************************************************************)
EXTENDS Integers, Sequences, FiniteSets, TLC

VARIABLES
    mesh,        \* SpecMesh: the object the last operation returned (or NoObj)
    parent,      \* SpecMesh: the object that operation was called on
    op,          \* SpecMesh: the last operation
    \* SpecLoop: one call of GMesh.refine_loop
    pc,          \* "idle", "loop" (at the while test), "done" (returned), "error" (raised)
    opts,        \* the arguments of the call
    this,        \* local: the current mesh
    GMesh_list,  \* local: the list that is returned
    converged,   \* local
    nhits,       \* local
    prev_hits,   \* local
    mb,          \* local, in bytes: 2*8*nj*ni
    warned,      \* whether the warning of line 545 was printed
    hits_log,    \* history: for each mesh of GMesh_list, the hits computed for it
    \* SpecTW: one ThinWalls object taken through the coarsening stages
    tw,          \* the ThinWalls object (or NoObj); after coarsen, the object coarsen returned
    calls,       \* history: the methods called so far, in order
    \* SpecPath: the low of the edges of a grid of coarse cells, diagnosed and limited
    pw,
    \* SpecStore: a ThinWalls and the one coarsen returned, with their arrays in a store
    heap,        \* the array buffers, by number
    objs         \* the objects: for each attribute the buffer it is bound to

meshVars == <<mesh, parent, op>>
loopVars == <<pc, opts, this, GMesh_list, converged, nhits, prev_hits, mb, warned, hits_log>>
twVars == <<tw, calls>>
pathVars == <<pw>>
storeVars == <<heap, objs>>
vars == <<mesh, parent, op, pc, opts, this, GMesh_list, converged, nhits, prev_hits, mb,
          warned, hits_log, tw, calls, pw, heap, objs>>

----------------------------------------------------------------------------
(* Bounds of the model *)

MaxMeshOps == 2      \* SpecMeshOps: transpose, rotate and copy calls on one object
MaxRefN == 4         \* SpecMesh: a mesh is refined while nj and ni are at most this
MaxStages == 3       \* SpecLoop: largest max_stages
MaxFixed == 2        \* SpecLoop: largest fixed_refine_level
MaxRfl == 1          \* SpecLoop: largest rfl of the mesh refine_loop is called on

----------------------------------------------------------------------------
(* Fixed point and array helpers *)

Deg == 2 * 8

Min2(a, b) == IF a <= b THEN a ELSE b
Max2(a, b) == IF a >= b THEN a ELSE b
Abs(a) == IF a >= 0 THEN a ELSE -a

Rows(A) == Len(A)
Cols(A) == IF Len(A) = 0 THEN 0 ELSE Len(A[1])
At(A, j, i) == A[j + 1][i + 1]
Arr2(nr, nc, F(_, _)) == [j \in 1..nr |-> [i \in 1..nc |-> F(j - 1, i - 1)]]
Set2(A, j, i, v) == [A EXCEPT ![j + 1][i + 1] = v]

\* F applied to the value of v: v is evaluated once, then F
Bind(v, F(_)) == CHOOSE r \in {F(x) : x \in {v}} : TRUE

\* Argument values of the constructor: None, a 1-D array, a 2-D array
None == [rank |-> 0]
A1(s) == [rank |-> 1, v |-> s]
A2(a) == [rank |-> 2, v |-> a]

\* What a call that raised an exception leaves behind
Raised == [exc |-> TRUE]
NoObj == [exc |-> FALSE, cls |-> "none"]

\* A local variable of refine_loop that was never assigned
NotComputed == 0 - 1

----------------------------------------------------------------------------
(* GMesh.__init__ *)

\* numpy.linspace(a, b, n) for n >= 1
linspace(a, b, n) ==
    [k \in 1..n |-> IF n = 1 THEN a ELSE a + ((k - 1) * (b - a)) \div (n - 1)]

\* numpy.meshgrid(x, y): two arrays of shape (len(y), len(x))
meshgridX(x, y) == Arr2(Len(y), Len(x), LAMBDA j, i : x[i + 1])
meshgridY(x, y) == Arr2(Len(y), Len(x), LAMBDA j, i : y[j + 1])

\* Cell-centre coordinates c replaced by the n+1 node coordinates (lines 113-117):
\* tmp[1:-1] takes the n-1 midpoints (one midpoint is broadcast), then the ends
nodes_from_centers(c, n) ==
    [k \in 1..(n + 1) |->
        IF k = 1 THEN (3 * c[1] - c[2]) \div 2
        ELSE IF k = n + 1 THEN (3 * c[Len(c)] - c[Len(c) - 1]) \div 2
        ELSE IF Len(c) = n THEN (c[k - 1] + c[k]) \div 2
        ELSE (c[1] + c[2]) \div 2]

\* list(zip(*numpy.nonzero(lat == 90))): the nodes at the North Pole, row-major
RECURSIVE np_scan(_, _)
np_scan(lat, k) ==
    IF k >= Rows(lat) * Cols(lat) THEN <<>>
    ELSE LET j == k \div Cols(lat)
             i == k % Cols(lat)
         IN  (IF At(lat, j, i) = 90 * Deg THEN << <<j, i>> >> ELSE <<>>)
             \o np_scan(lat, k + 1)

find_np_index(lat) == np_scan(lat, 0)

GMesh_init(shape, lon, lat, lon0, from_cell_center, rfl) ==
    IF (shape.rank = 0 /\ lon.rank = 0 /\ lat.rank = 0)
       \/ (lon.rank = 0 /\ lat.rank # 0)
       \/ (lon.rank # 0 /\ lat.rank = 0)
    THEN Raised
    ELSE
    LET ni0 == IF shape.rank # 0 THEN shape.v[2]
               ELSE IF lon.rank = 1 THEN Len(lon.v) - 1 ELSE Cols(lon.v) - 1
        nj0 == IF shape.rank # 0 THEN shape.v[1] ELSE Len(lat.v) - 1
        ni == IF from_cell_center THEN ni0 + 1 ELSE ni0
        nj == IF from_cell_center THEN nj0 + 1 ELSE nj0
        \* the slices of lines 113-122 need 1-D centres that fit tmp[1:-1]
        cc_bad == from_cell_center /\
                  (lon.rank # 1 \/ lat.rank # 1
                   \/ Len(lon.v) < 2 \/ Len(lat.v) < 2
                   \/ (Len(lon.v) # ni /\ Len(lon.v) # 2)
                   \/ (Len(lat.v) # nj /\ Len(lat.v) # 2))
        lonN == IF from_cell_center /\ ~cc_bad THEN A1(nodes_from_centers(lon.v, ni)) ELSE lon
        latN == IF from_cell_center /\ ~cc_bad THEN A1(nodes_from_centers(lat.v, nj)) ELSE lat
        given == lonN.rank # 0 /\ latN.rank # 0
        bad1 == given /\ lonN.rank = 1 /\ (latN.rank > 1 \/ Len(lonN.v) # ni + 1)
        bad2 == given /\ latN.rank = 1 /\ (lonN.rank > 1 \/ Len(latN.v) # nj + 1)
        bad3 == given /\ lonN.rank = 2 /\ latN.rank = 2 /\
                (Rows(lonN.v) # Rows(latN.v) \/ Cols(lonN.v) # Cols(latN.v)
                 \/ Rows(lonN.v) # nj + 1 \/ Cols(lonN.v) # ni + 1)
        lon1d == linspace(-90 * Deg, 90 * Deg, nj + 1)
        lat1d == linspace(lon0, lon0 + 360 * Deg, ni + 1)
        lonA == IF given
                THEN IF lonN.rank = 2 THEN lonN.v ELSE meshgridX(lonN.v, latN.v)
                ELSE meshgridX(lon1d, lat1d)
        latA == IF given
                THEN IF latN.rank = 2 THEN latN.v ELSE meshgridY(lonN.v, latN.v)
                ELSE meshgridY(lon1d, lat1d)
    IN  IF cc_bad \/ bad1 \/ bad2 \/ bad3 THEN Raised
        ELSE Bind(<<lonA, latA>>,
                  LAMBDA a : [exc |-> FALSE, cls |-> "GMesh", nj |-> nj, ni |-> ni,
                              lon |-> a[1], lat |-> a[2],
                              np_index |-> find_np_index(a[2]), rfl |-> rfl])

----------------------------------------------------------------------------
(* Midpoints: planar with pole overrides, and spherical *)

Period == 360 * Deg
Pole == 90 * Deg

\* GMesh.__mean2j, __mean2i, __mean4 (lat, work_in_3d=False)
mean2j(A) == Arr2(Rows(A) - 1, Cols(A), LAMBDA j, i : (At(A, j, i) + At(A, j + 1, i)) \div 2)
mean2i(A) == Arr2(Rows(A), Cols(A) - 1, LAMBDA j, i : (At(A, j, i) + At(A, j, i + 1)) \div 2)
mean4(A) ==
    Arr2(Rows(A) - 1, Cols(A) - 1,
         LAMBDA j, i : ((At(A, j, i) + At(A, j + 1, i + 1))
                        + (At(A, j + 1, i) + At(A, j, i + 1))) \div 4)

\* GMesh.__lonmean2 with period=360
lonmean2(lon1, lon2) ==
    LET d == (lon2 - lon1) % Period
    IN  lon1 + (d - (IF 2 * d > Period THEN Period ELSE 0)) \div 2

\* An array under construction and whether an index was out of range
Ok(a) == [a |-> a, err |-> FALSE]
IndexError == [a |-> <<>>, err |-> TRUE]

\* GMesh.__mean2j_lon, periodicity=True: the loop over the singularities
RECURSIVE mean2j_lon_fix(_, _, _, _)
mean2j_lon_fix(A, m, sing, k) ==
    IF k > Len(sing) THEN Ok(m)
    ELSE LET jj == sing[k][1]
             ii == sing[k][2]
             m1 == IF jj < Rows(A) - 1 THEN Set2(m, jj, ii, At(A, jj + 1, ii)) ELSE m
             m2 == IF jj >= 1 THEN Set2(m1, jj - 1, ii, At(A, jj - 1, ii)) ELSE m1
         IN  mean2j_lon_fix(A, m2, sing, k + 1)

mean2j_lon(A, singularities) ==
    mean2j_lon_fix(A,
        Arr2(Rows(A) - 1, Cols(A), LAMBDA j, i : lonmean2(At(A, j, i), At(A, j + 1, i))),
        singularities, 1)

\* GMesh.__mean2i_lon: the first test is ii < A.shape[1], which every node
\* passes, so a pole node in the last column reads A[jj, ii+1] out of range
RECURSIVE mean2i_lon_fix(_, _, _, _)
mean2i_lon_fix(A, m, sing, k) ==
    IF k > Len(sing) THEN Ok(m)
    ELSE LET jj == sing[k][1]
             ii == sing[k][2]
         IN  IF ii < Cols(A) /\ ii + 1 > Cols(A) - 1 THEN IndexError
             ELSE LET m1 == IF ii < Cols(A) THEN Set2(m, jj, ii, At(A, jj, ii + 1)) ELSE m
                      m2 == IF ii >= 1 THEN Set2(m1, jj, ii - 1, At(A, jj, ii - 1)) ELSE m1
                  IN  mean2i_lon_fix(A, m2, sing, k + 1)

mean2i_lon(A, singularities) ==
    mean2i_lon_fix(A,
        Arr2(Rows(A), Cols(A) - 1, LAMBDA j, i : lonmean2(At(A, j, i), At(A, j, i + 1))),
        singularities, 1)

\* GMesh.__mean4_lon, periodicity=True.  The third assignment sits under
\* jj>=1 and ii>=1 and reads A[jj+1, .], out of range for a node in the last row
RECURSIVE mean4_lon_fix(_, _, _, _)
mean4_lon_fix(A, m, sing, k) ==
    IF k > Len(sing) THEN Ok(m)
    ELSE LET jj == sing[k][1]
             ii == sing[k][2]
             nr == Rows(A)
             nc == Cols(A)
         IN  IF jj >= 1 /\ ii >= 1 /\ jj + 1 > nr - 1 THEN IndexError
             ELSE
             LET m1 == IF jj < nr - 1 /\ ii < nc - 1
                       THEN Set2(m, jj, ii,
                                 lonmean2(At(A, jj + 1, ii + 1),
                                          lonmean2(At(A, jj, ii + 1), At(A, jj + 1, ii))))
                       ELSE m
                 m2 == IF jj >= 1 /\ ii >= 1
                       THEN Set2(Set2(m1, jj - 1, ii - 1,
                                      lonmean2(At(A, jj - 1, ii - 1),
                                               lonmean2(At(A, jj, ii - 1), At(A, jj - 1, ii)))),
                                 jj, ii - 1,
                                 lonmean2(At(A, jj + 1, ii - 1),
                                          lonmean2(At(A, jj, ii - 1), At(A, jj + 1, ii))))
                       ELSE m1
                 m3 == IF jj >= 1 /\ ii < nc - 1
                       THEN Set2(m2, jj - 1, ii,
                                 lonmean2(At(A, jj - 1, ii + 1),
                                          lonmean2(At(A, jj, ii + 1), At(A, jj - 1, ii))))
                       ELSE m2
             IN  mean4_lon_fix(A, m3, sing, k + 1)

mean4_lon(A, singularities) ==
    mean4_lon_fix(A,
        Arr2(Rows(A) - 1, Cols(A) - 1,
             LAMBDA j, i : lonmean2(lonmean2(At(A, j, i), At(A, j + 1, i + 1)),
                                    lonmean2(At(A, j + 1, i), At(A, j, i + 1)))),
        singularities, 1)

(***************************************************************************)
(* The spherical midpoint, GMesh.__lonlat_to_XYZ, __mean_from_xyz and      *)
(* __XYZ_to_lonlat composed: the points are averaged as unit vectors and   *)
(* the mean is projected back on the sphere.  In fixed point:              *)
(*  - the longitude is the mean along the shorter arc of the points that   *)
(*    are not at a pole (a pole has X = Y = 0 and adds no longitude),      *)
(*    brought to -180..180 as arccos and the sign of Y do;                 *)
(*  - the latitude is the mean latitude moved towards the pole by the      *)
(*    second-order term of the great circle, sin(2 lat) dlon^2 / 16 (in    *)
(*    radians), where dlon is the spread in longitude of the points and    *)
(*    the sine is Bhaskara's rational approximation.                       *)
(***************************************************************************)
mdist(x1, x2) == Min2((x1 - x2) % Period, (x2 - x1) % Period)

sin2lat_1000(lat) ==
    LET x == 2 * Abs(lat)
        q == (x * (180 * Deg - x)) \div (Deg * Deg)
    IN  (4000 * q) \div (40500 - q)

great_circle_lift(lat, dlon) ==
    LET l == (sin2lat_1000(lat) * ((dlon * dlon) \div Deg)) \div 916732
    IN  IF lat >= 0 THEN Min2(l, Pole - lat) ELSE - Min2(l, Pole + lat)

XYZ_wrap_lon(x) ==
    LET r == ((x + 180 * Deg) % Period) - 180 * Deg
    IN  IF r = -180 * Deg /\ x > 0 THEN 180 * Deg ELSE r

AtPole(lat) == Abs(lat) = Pole

\* two points p, q given as <<lon, lat>>
sphere_lon2(p, q) ==
    IF AtPole(p[2]) /\ AtPole(q[2]) THEN p[1]
    ELSE IF AtPole(p[2]) THEN q[1]
    ELSE IF AtPole(q[2]) THEN p[1]
    ELSE lonmean2(p[1], q[1])

sphere_spread2(p, q) == IF AtPole(p[2]) \/ AtPole(q[2]) THEN 0 ELSE mdist(p[1], q[1])

sphere_mean2(p, q) ==
    LET lat == (p[2] + q[2]) \div 2
    IN  << XYZ_wrap_lon(sphere_lon2(p, q)), lat + great_circle_lift(lat, sphere_spread2(p, q)) >>

\* four points: a, b on one row, c, d on the next
sphere_mean4(a, b, c, d) ==
    LET lat == ((a[2] + d[2]) + (c[2] + b[2])) \div 4
        ad == << sphere_lon2(a, d), IF AtPole(a[2]) /\ AtPole(d[2]) THEN Pole ELSE 0 >>
        cb == << sphere_lon2(c, b), IF AtPole(c[2]) /\ AtPole(b[2]) THEN Pole ELSE 0 >>
        dl == Max2(sphere_spread2(a, b), sphere_spread2(c, d))
    IN  << XYZ_wrap_lon(sphere_lon2(ad, cb)), lat + great_circle_lift(lat, dl) >>

\* GMesh.__lonlat_to_XYZ places any (lon, lat) on the sphere: a latitude beyond
\* a pole is the point on the opposite meridian
on_sphere(lon, lat) ==
    LET l == ((lat + 180 * Deg) % Period) - 180 * Deg
    IN  IF l > Pole THEN << lon + 180 * Deg, 180 * Deg - l >>
        ELSE IF l < -Pole THEN << lon + 180 * Deg, -180 * Deg - l >>
        ELSE << lon, l >>

Pt(lon, lat, j, i) == on_sphere(At(lon, j, i), At(lat, j, i))

\* GMesh.__mean_from_xyz(X, Y, Z, direction) on the nodes (lon, lat); k = 1: lon, 2: lat
mean_from_xyz(lon, lat, direction, k) ==
    IF direction = "j"
    THEN Arr2(Rows(lon) - 1, Cols(lon),
              LAMBDA j, i : sphere_mean2(Pt(lon, lat, j, i), Pt(lon, lat, j + 1, i))[k])
    ELSE IF direction = "i"
    THEN Arr2(Rows(lon), Cols(lon) - 1,
              LAMBDA j, i : sphere_mean2(Pt(lon, lat, j, i), Pt(lon, lat, j, i + 1))[k])
    ELSE Arr2(Rows(lon) - 1, Cols(lon) - 1,
              LAMBDA j, i : sphere_mean4(Pt(lon, lat, j, i), Pt(lon, lat, j, i + 1),
                                         Pt(lon, lat, j + 1, i), Pt(lon, lat, j + 1, i + 1))[k])

----------------------------------------------------------------------------
(* GMesh.interp_center_coords and GMesh.refineby2 *)

\* interp_center_coords(work_in_3d): [lon, lat, err]
interp_center_coords(self, work_in_3d) ==
    IF work_in_3d
    THEN [lon |-> mean_from_xyz(self.lon, self.lat, "4", 1),
          lat |-> mean_from_xyz(self.lon, self.lat, "4", 2), err |-> FALSE]
    ELSE Bind(mean4_lon(self.lon, self.np_index),
              LAMBDA m : [lon |-> m.a, lat |-> mean4(self.lat), err |-> m.err])

\* The (2nj+1, 2ni+1) array with E at even-even, J at odd-even, I at even-odd
\* and C at odd-odd positions
interleave(nj, ni, E, J, I, C) ==
    Arr2(2 * nj + 1, 2 * ni + 1,
         LAMBDA j, i :
            IF j % 2 = 0 /\ i % 2 = 0 THEN At(E, j \div 2, i \div 2)
            ELSE IF j % 2 = 1 /\ i % 2 = 0 THEN At(J, j \div 2, i \div 2)
            ELSE IF j % 2 = 0 /\ i % 2 = 1 THEN At(I, j \div 2, i \div 2)
            ELSE At(C, j \div 2, i \div 2))

\* The midpoints of lines 371-384: [err, lonj, loni, lonc, latj, lati, latc]
midpoints(self, work_in_3d) ==
    IF work_in_3d
    THEN [err |-> FALSE,
          lonj |-> mean_from_xyz(self.lon, self.lat, "j", 1),
          loni |-> mean_from_xyz(self.lon, self.lat, "i", 1),
          lonc |-> mean_from_xyz(self.lon, self.lat, "4", 1),
          latj |-> mean_from_xyz(self.lon, self.lat, "j", 2),
          lati |-> mean_from_xyz(self.lon, self.lat, "i", 2),
          latc |-> mean_from_xyz(self.lon, self.lat, "4", 2)]
    ELSE Bind(<< mean2j_lon(self.lon, self.np_index), mean2i_lon(self.lon, self.np_index),
                 mean4_lon(self.lon, self.np_index) >>,
              LAMBDA m :
                 IF m[1].err \/ m[2].err \/ m[3].err THEN [err |-> TRUE]
                 ELSE [err |-> FALSE, lonj |-> m[1].a, loni |-> m[2].a, lonc |-> m[3].a,
                       latj |-> mean2j(self.lat), lati |-> mean2i(self.lat),
                       latc |-> mean4(self.lat)])

refineby2(self, work_in_3d) ==
    \* lon[::2,::2], lat[::2,::2] = self.lon, self.lat needs arrays of (nj+1, ni+1)
    IF Rows(self.lon) # self.nj + 1 \/ Cols(self.lon) # self.ni + 1
       \/ Rows(self.lat) # self.nj + 1 \/ Cols(self.lat) # self.ni + 1
    THEN Raised
    ELSE Bind(midpoints(self, work_in_3d),
              LAMBDA m :
                 IF m.err THEN Raised
                 ELSE Bind(<< interleave(self.nj, self.ni, self.lon, m.lonj, m.loni, m.lonc),
                              interleave(self.nj, self.ni, self.lat, m.latj, m.lati, m.latc) >>,
                           LAMBDA a : GMesh_init(None, A2(a[1]), A2(a[2]), -180 * Deg, FALSE,
                                                 self.rfl + 1)))

----------------------------------------------------------------------------
(* RegularCoord, GMesh.find_nn_uniform_source, GMesh.source_hits,          *)
(* GMesh.coarsest_resolution                                                *)

\* RegularCoord(n, origin, periodic, delta): start = 0, stop = n
RegularCoord(n, origin, delta) ==
    [n |-> n, origin |-> origin, delta |-> delta, start |-> 0, stop |-> n]

\* RegularCoord.size
size(c) == c.stop - c.start + (IF c.start > c.stop THEN c.n ELSE 0)

Ceil(a, b) == -((-a) \div b)

\* min and max of a 2-D array of integers
Elems(A) == {At(A, j, i) : j \in 0..(Rows(A) - 1), i \in 0..(Cols(A) - 1)}
SetMax(S) == CHOOSE v \in S : \A w \in S : w <= v
SetMin(S) == CHOOSE v \in S : \A w \in S : w >= v
ArrMax(A) == Bind(A, LAMBDA a : Bind(Elems(a), LAMBDA S : SetMax(S)))
ArrMin(A) == Bind(A, LAMBDA a : Bind(Elems(a), LAMBDA S : SetMin(S)))

\* find_nn_uniform_source(lon, lat, use_center): [i, j, err]; err is the
\* AssertionError of lines 454-457 (or an exception of interp_center_coords)
nn_index(tgt, lon, lat) ==
    [i |-> Arr2(Rows(tgt.lon), Cols(tgt.lon),
                LAMBDA j, i : ((At(tgt.lon, j, i) - lon.origin + lon.delta \div 2) % Period)
                              \div lon.delta),
     j |-> Arr2(Rows(tgt.lat), Cols(tgt.lat),
                LAMBDA j, i : Min2((2 * (At(tgt.lat, j, i) - lat.origin) + lat.delta)
                                   \div (2 * lat.delta), lat.n - 1))]

find_nn_uniform_source(self, lon, lat, use_center) ==
    Bind(IF use_center THEN interp_center_coords(self, TRUE)
         ELSE [lon |-> self.lon, lat |-> self.lat, err |-> FALSE],
         LAMBDA tgt :
            IF tgt.err THEN [err |-> TRUE]
            ELSE Bind(nn_index(tgt, lon, lat),
                      LAMBDA nn :
                         IF /\ ArrMin(nn.j) >= 0 /\ ArrMax(nn.j) < lat.n
                            /\ ArrMin(nn.i) >= 0 /\ ArrMax(nn.i) < lon.n
                         THEN [i |-> nn.i, j |-> nn.j, err |-> FALSE]
                         ELSE [err |-> TRUE]))

\* source_hits(xs, ys, use_center, singularity_radius): [hits, err], hits a
\* (snj, sni) array of 0 and 1
source_hits(self, xs, ys, use_center, singularity_radius) ==
    LET sni == size(xs)
        snj == size(ys)
        iy == Ceil(90 * Deg - singularity_radius - ys.origin, ys.delta) - ys.start
        \* hits[iy:] = 1 with the slice rules of python
        first == IF iy < 0 THEN Max2(snj + iy, 0) ELSE iy
        \* the index pairs of hits[j-ys.start, mod(i-xs.start, xs.n)] = 1
        marks(nn) == { << At(nn.j, j, i) - ys.start, (At(nn.i, j, i) - xs.start) % xs.n >> :
                          j \in 0..(Rows(nn.j) - 1), i \in 0..(Cols(nn.j) - 1) }
    IN  Bind(find_nn_uniform_source(self, xs, ys, use_center),
             LAMBDA nn :
                IF nn.err THEN [err |-> TRUE]
                ELSE Bind(marks(nn),
                          LAMBDA mk :
                             [hits |-> Arr2(snj, sni,
                                            LAMBDA r, c :
                                               IF (singularity_radius > 0 /\ r >= first)
                                                  \/ <<r, c>> \in mk
                                               THEN 1 ELSE 0),
                              err |-> FALSE]))

\* hits.sum() and numpy.all(hits)
RECURSIVE SeqSum(_)
SeqSum(q) == IF q = <<>> THEN 0 ELSE Head(q) + SeqSum(Tail(q))
hits_sum(hits) == SeqSum([r \in 1..Len(hits) |-> SeqSum(hits[r])])
hits_all(hits) == \A r \in 1..Len(hits) : \A c \in 1..Len(hits[r]) : hits[r][c] # 0

Max6(a, b, c, d, e, f) == Max2(Max2(Max2(a, b), Max2(c, d)), Max2(e, f))

\* coarsest_resolution(mask_idx=[]): del_lam.max(), del_phi.max()
coarsest_resolution(self) ==
    LET l == self.lon
        p == self.lat
        del_lam == Arr2(Rows(l) - 1, Cols(l) - 1,
            LAMBDA j, i : Max6(mdist(At(l, j, i), At(l, j, i + 1)),
                               mdist(At(l, j + 1, i), At(l, j + 1, i + 1)),
                               mdist(At(l, j, i), At(l, j + 1, i)),
                               mdist(At(l, j + 1, i + 1), At(l, j, i + 1)),
                               mdist(At(l, j, i), At(l, j + 1, i + 1)),
                               mdist(At(l, j + 1, i), At(l, j, i + 1))))
        del_phi == Arr2(Rows(p) - 1, Cols(p) - 1,
            LAMBDA j, i : Max6(Abs(At(p, j + 1, i + 1) - At(p, j, i + 1)),
                               Abs(At(p, j + 1, i) - At(p, j, i)),
                               Abs(At(p, j + 1, i + 1) - At(p, j + 1, i)),
                               Abs(At(p, j, i + 1) - At(p, j, i)),
                               Abs(At(p, j, i) - At(p, j + 1, i + 1)),
                               Abs(At(p, j + 1, i) - At(p, j, i + 1))))
    IN  [dellon_t |-> ArrMax(del_lam), dellat_t |-> ArrMax(del_phi)]

----------------------------------------------------------------------------
(* ThinWalls.__init__ and ThinWalls.refine *)

ThinWalls_init(shape, lon, lat, lon0, from_cell_center, rfl) ==
    Bind(GMesh_init(shape, lon, lat, lon0, from_cell_center, rfl),
         LAMBDA g : IF g.exc THEN Raised
                    ELSE [exc |-> FALSE, cls |-> "ThinWalls", nj |-> g.nj, ni |-> g.ni,
                          lon |-> g.lon, lat |-> g.lat, np_index |-> g.np_index,
                          rfl |-> g.rfl])

\* M = super().refineby2(); return ThinWalls(lon=M.lon, lat=M.lat)
ThinWalls_refine(self) ==
    Bind(refineby2(self, TRUE),
         LAMBDA M : IF M.exc THEN Raised
                    ELSE ThinWalls_init(None, A2(M.lon), A2(M.lat), -180 * Deg, FALSE, 0))

----------------------------------------------------------------------------
(* SpecMesh: construction and refinement of meshes *)

IsMesh(m) == ~m.exc /\ m.cls # "none"

Classes == {"GMesh", "ThinWalls"}
New(cls, shape, lon, lat, lon0, from_cell_center, rfl) ==
    IF cls = "ThinWalls" THEN ThinWalls_init(shape, lon, lat, lon0, from_cell_center, rfl)
    ELSE GMesh_init(shape, lon, lat, lon0, from_cell_center, rfl)

\* Inputs of the constructors
ShapeN == 1..3
Lon0s == {-180 * Deg, 0}
Rfls == {0, 1}
Lon1D == { <<0, 90 * Deg>>, <<0, 2 * Deg, 92 * Deg>>, <<170 * Deg, 190 * Deg>>,
           <<-180 * Deg, -60 * Deg, 60 * Deg, 180 * Deg>> }
Lat1D == { <<0, 90 * Deg>>, <<41 * Deg, 49 * Deg>>, <<-90 * Deg, 0, 90 * Deg>>,
           <<60 * Deg, 80 * Deg, 90 * Deg>>, <<-10 * Deg, 10 * Deg, 20 * Deg, 50 * Deg>> }
\* 2-D node arrays: a sheared patch, a tripolar-like cap with the pole inside
\* the first column, and a pair of different shapes
Lon2D == { << <<0, 10 * Deg>>, <<4 * Deg, 14 * Deg>> >>,
           << <<0, 40 * Deg, 80 * Deg>>, <<0, 40 * Deg, 80 * Deg>>, <<0, 40 * Deg, 80 * Deg>> >>,
           << <<0, 8 * Deg, 16 * Deg>>, <<2 * Deg, 10 * Deg, 18 * Deg>> >> }
Lat2D == { << <<0, 2 * Deg>>, <<10 * Deg, 12 * Deg>> >>,
           << <<70 * Deg, 70 * Deg, 70 * Deg>>, <<90 * Deg, 80 * Deg, 80 * Deg>>,
              <<80 * Deg, 84 * Deg, 84 * Deg>> >>,
           << <<0, 0, 0>>, <<6 * Deg, 6 * Deg, 6 * Deg>> >> }

\* The model follows one object: it is constructed once (op.name = "none"
\* before) and then refined.
\* GMesh(shape=(nj, ni), lon0=lon0) or ThinWalls(...)
ConstructDefault ==
    \E cls \in Classes, nj \in ShapeN, ni \in ShapeN, lon0 \in Lon0s, rfl \in Rfls :
        /\ op.name = "none"
        /\ mesh' = New(cls, A1(<<nj, ni>>), None, None, lon0, FALSE, rfl)
        /\ parent' = NoObj
        /\ op' = [name |-> "default", nj |-> nj, ni |-> ni, lon0 |-> lon0]

\* GMesh(lon=lon, lat=lat, from_cell_center=c) with 1-D arrays
Construct1D ==
    \E cls \in Classes, lon \in Lon1D, lat \in Lat1D, c \in BOOLEAN, rfl \in Rfls :
        /\ op.name = "none"
        /\ mesh' = New(cls, None, A1(lon), A1(lat), -180 * Deg, c, rfl)
        /\ parent' = NoObj
        /\ op' = [name |-> IF c THEN "centers" ELSE "1d",
                  nj |-> IF c THEN Len(lat) ELSE Len(lat) - 1,
                  ni |-> IF c THEN Len(lon) ELSE Len(lon) - 1, lon0 |-> 0]

\* GMesh(lon=lon, lat=lat) with 2-D arrays
Construct2D ==
    \E cls \in Classes, lon \in Lon2D, lat \in Lat2D, rfl \in Rfls :
        /\ op.name = "none"
        /\ mesh' = New(cls, None, A2(lon), A2(lat), -180 * Deg, FALSE, rfl)
        /\ parent' = NoObj
        /\ op' = [name |-> "2d", nj |-> Rows(lat) - 1, ni |-> Cols(lon) - 1, lon0 |-> 0]

\* The number of transpose, rotate and copy calls made on the object so far
OpsDone == IF "seq" \in DOMAIN op THEN op.seq ELSE 0

\* mesh.refineby2(work_in_3d=w)
Refineby2 ==
    \E w \in BOOLEAN :
        /\ IsMesh(mesh)
        /\ mesh.nj <= MaxRefN /\ mesh.ni <= MaxRefN
        /\ mesh' = refineby2(mesh, w)
        /\ parent' = mesh
        /\ op' = [name |-> "refineby2", nj |-> mesh.nj, ni |-> mesh.ni, lon0 |-> 0,
                  work_in_3d |-> w, seq |-> OpsDone]

\* mesh.refine() on a ThinWalls
Refine ==
    /\ IsMesh(mesh) /\ mesh.cls = "ThinWalls"
    /\ mesh.nj <= MaxRefN /\ mesh.ni <= MaxRefN
    /\ mesh' = ThinWalls_refine(mesh)
    /\ parent' = mesh
    /\ op' = [name |-> "refine", nj |-> mesh.nj, ni |-> mesh.ni, lon0 |-> 0]

\* Source grids <<lon, lat>> handed to find_nn_uniform_source
NNSources ==
    { << RegularCoord(1, 0, 360 * Deg), RegularCoord(3, 45 * Deg, 10 * Deg) >>,
      << RegularCoord(2, 0, 90 * Deg), RegularCoord(3, 45 * Deg, 10 * Deg) >>,
      << RegularCoord(4, -180 * Deg, 90 * Deg), RegularCoord(5, -90 * Deg, 45 * Deg) >> }

\* mesh.find_nn_uniform_source(lon, lat, use_center): the mesh is left as it is
FindNN ==
    \E src \in NNSources, use_center \in BOOLEAN :
        /\ IsMesh(mesh)
        /\ mesh.nj <= MaxRefN /\ mesh.ni <= MaxRefN
        /\ mesh' = mesh
        /\ parent' = mesh
        /\ op' = [name |-> "find_nn_uniform_source", nj |-> mesh.nj, ni |-> mesh.ni,
                  lon0 |-> 0, lon |-> src[1], lat |-> src[2], use_center |-> use_center,
                  nn |-> find_nn_uniform_source(mesh, src[1], src[2], use_center)]

MeshIdle ==
    /\ mesh = NoObj
    /\ parent = NoObj
    /\ op = [name |-> "none", nj |-> 0, ni |-> 0, lon0 |-> 0]

LoopIdle ==
    /\ pc = "idle"
    /\ opts = [max_stages |-> 0]
    /\ this = NoObj
    /\ GMesh_list = <<>>
    /\ converged = FALSE
    /\ nhits = NotComputed
    /\ prev_hits = NotComputed
    /\ mb = 0
    /\ warned = FALSE
    /\ hits_log = <<>>

TWIdle ==
    /\ tw = NoObj
    /\ calls = <<>>

PathIdle == pw = [phase |-> "none"]

StoreIdle ==
    /\ heap = <<>>
    /\ objs = [phase |-> "none"]

InitMesh == MeshIdle /\ LoopIdle /\ TWIdle /\ PathIdle /\ StoreIdle

NextMesh ==
    /\ \/ ConstructDefault
       \/ Construct1D
       \/ Construct2D
       \/ Refineby2
       \/ Refine
       \/ FindNN
    /\ UNCHANGED <<loopVars, twVars, pathVars, storeVars>>

SpecMesh == InitMesh /\ [][NextMesh]_vars

----------------------------------------------------------------------------
(* Properties of construction and refinement *)

Constructed == op.name \in {"default", "1d", "centers", "2d"} /\ IsMesh(mesh)

HasShape(A, nr, nc) == Rows(A) = nr /\ Cols(A) = nc

\* C4: every successfully constructed mesh has lon and lat of the same shape
\* (nj+1, ni+1), and in the default mode lat is linspace(-90, 90, nj+1) along j
\* and lon is linspace(lon0, lon0+360, ni+1) along i.
C4_NodeShape ==
    Constructed =>
        /\ HasShape(mesh.lon, mesh.nj + 1, mesh.ni + 1)
        /\ HasShape(mesh.lat, mesh.nj + 1, mesh.ni + 1)
        /\ op.name = "default" =>
              \A j \in 0..mesh.nj, i \in 0..mesh.ni :
                  /\ At(mesh.lat, j, i) = linspace(-90 * Deg, 90 * Deg, mesh.nj + 1)[j + 1]
                  /\ At(mesh.lon, j, i) = linspace(op.lon0, op.lon0 + 360 * Deg, mesh.ni + 1)[i + 1]

\* The explicit modes (1-D, 2-D, cell centres) do give (nj+1, ni+1)
C4_ExplicitShape ==
    (Constructed /\ op.name # "default") =>
        /\ HasShape(mesh.lon, mesh.nj + 1, mesh.ni + 1)
        /\ HasShape(mesh.lat, mesh.nj + 1, mesh.ni + 1)
        /\ mesh.nj = op.nj /\ mesh.ni = op.ni

\* A default mesh of 1 x 2 cells whose arrays have 3 rows and 2 columns
C4_DefaultTransposed ==
    /\ Constructed /\ op.name = "default" /\ mesh.nj = 1 /\ mesh.ni = 2
    /\ HasShape(mesh.lon, 3, 2) /\ HasShape(mesh.lat, 3, 2)
    /\ mesh.lon[1] = << -90 * Deg, 90 * Deg >>
    /\ mesh.lat[3] = << op.lon0 + 360 * Deg, op.lon0 + 360 * Deg >>

\* C3: every refinement operation (refineby2, ThinWalls.refine) returns a mesh
\* whose rfl is the parent's rfl + 1.
C3_RflPlusOne ==
    (op.name \in {"refineby2", "refine"} /\ IsMesh(mesh)) => mesh.rfl = parent.rfl + 1

\* refineby2 itself does return rfl + 1
C3_Refineby2Rfl ==
    (op.name = "refineby2" /\ IsMesh(mesh)) => mesh.rfl = parent.rfl + 1

\* ThinWalls.refine of a mesh at level 1 returned a mesh at level 0
C3_RefineResetsRfl ==
    op.name = "refine" /\ IsMesh(mesh) /\ parent.rfl = 1 /\ mesh.rfl = 0

EvenNodesKept(M, P) ==
    /\ M.nj = 2 * P.nj /\ M.ni = 2 * P.ni
    /\ HasShape(M.lon, 2 * P.nj + 1, 2 * P.ni + 1)
    /\ HasShape(M.lat, 2 * P.nj + 1, 2 * P.ni + 1)
    /\ \A j \in 0..(Rows(P.lon) - 1), i \in 0..(Cols(P.lon) - 1) :
          /\ At(M.lon, 2 * j, 2 * i) = At(P.lon, j, i)
          /\ At(M.lat, 2 * j, 2 * i) = At(P.lat, j, i)

\* C2: for every mesh of shape (nj, ni) and both values of work_in_3d,
\* refineby2 returns a mesh of shape (2nj, 2ni) whose even-even nodes are
\* exactly the parent's nodes.
C2_Refineby2KeepsNodes ==
    op.name = "refineby2" => (IsMesh(mesh) /\ EvenNodesKept(mesh, parent))

\* Whenever refineby2 returns, the result has the shape and the nodes claimed
C2_KeepsNodesIfReturns ==
    (op.name \in {"refineby2", "refine"} /\ IsMesh(mesh)) => EvenNodesKept(mesh, parent)

\* refineby2 raised on a mesh built from 1-D coordinates that has a node at
\* the North Pole
C2_RaisedOnPole ==
    /\ op.name = "refineby2" /\ mesh.exc
    /\ HasShape(parent.lon, parent.nj + 1, parent.ni + 1)
    /\ parent.np_index # <<>>

\* refineby2 raised on a default mesh whose arrays are (ni+1, nj+1)
C2_RaisedOnDefault ==
    /\ op.name = "refineby2" /\ mesh.exc
    /\ ~HasShape(parent.lon, parent.nj + 1, parent.ni + 1)

----------------------------------------------------------------------------
(* GMesh.refine_loop as a process: Call runs lines 485-496, Iterate one pass *)
(* of the while loop (lines 518-533), Return lines 544-548                   *)

\* The largest mesh the loop can be asked to refine: the inputs have at most 4
\* cells and are refined at most Max2(MaxFixed, MaxStages - 1) times.  The
\* guard of Iterate keeps the state space finite when the while test is varied.
MaxLoopCells == 4 * 4 ^ (Max2(MaxFixed, MaxStages - 1) - 1)

\* Variants of the while test: without the cap on the length of the list,
\* without the test of converged, and with the level test not reading rfl
while_test_no_cap(conv, len, mbytes, o, rfl) ==
    \/ ~conv /\ 4 * mbytes < o.max_mb /\ o.fixed_refine_level < 1
    \/ rfl < o.fixed_refine_level

while_test_no_conv(conv, len, mbytes, o, rfl) ==
    \/ len < o.max_stages /\ 4 * mbytes < o.max_mb /\ o.fixed_refine_level < 1
    \/ rfl < o.fixed_refine_level

while_test_no_rfl(conv, len, mbytes, o, rfl) ==
    \/ ~conv /\ len < o.max_stages /\ 4 * mbytes < o.max_mb /\ o.fixed_refine_level < 1
    \/ 0 < o.fixed_refine_level

\* The while test of lines 513-517.  mb is in bytes and so is o.max_mb:
\* 4*mb < max_mb with both sides times 1024*1024
while_test(conv, len, mbytes, o, rfl) ==
    \/ /\ ~conv
       /\ len < o.max_stages
       /\ 4 * mbytes < o.max_mb
       /\ o.fixed_refine_level < 1
    \/ rfl < o.fixed_refine_level

\* lines 492-496 and 528-531: the resolution test
resolution_met(m, o) ==
    LET r == coarsest_resolution(m)
    IN  r.dellon_t <= o.src_lon.delta /\ r.dellat_t <= o.src_lat.delta

\* Inputs of refine_loop: meshes given by 1-D node coordinates <<lon, lat>>
\* (a regional patch, the globe) and source grids <<src_lon, src_lat>>
LoopMeshes ==
    { << <<0, 2 * Deg, 92 * Deg>>, <<41 * Deg, 49 * Deg>> >>,
      << <<-180 * Deg, 0, 180 * Deg>>, <<-90 * Deg, 0, 90 * Deg>> >> }
Sources ==
    { << RegularCoord(1, 0, 360 * Deg), RegularCoord(3, 45 * Deg, 10 * Deg) >>,
      << RegularCoord(1, 0, 360 * Deg), RegularCoord(3, 41 * Deg, 4 * Deg) >>,
      << RegularCoord(4, -180 * Deg, 90 * Deg), RegularCoord(5, -90 * Deg, 45 * Deg) >>,
      << RegularCoord(2, 0, 180 * Deg), RegularCoord(2, 0, 90 * Deg) >> }
\* max_mb in bytes: 512 bytes and the default 2000 Mb
MaxMbs == { 512, 2000 * 1048576 }
FixedLevels == { 0 - 1 } \cup 1..MaxFixed
Radii == { 0, Deg \div 4 }
\* With a fixed level the hit test is not run (lines 487 and 522): its
\* arguments use_center and singularity_radius are then left at their defaults
\* and the source grid is the first one
HitArgs(fixed_refine_level, src, use_center, singularity_radius) ==
    fixed_refine_level >= 1 =>
        /\ src = << RegularCoord(1, 0, 360 * Deg), RegularCoord(3, 45 * Deg, 10 * Deg) >>
        /\ ~use_center
        /\ singularity_radius = Deg \div 4

\* What lines 488-489 and 523-525 leave of the hits of one mesh
hits_entry(h, fixed_refine_level) ==
    IF fixed_refine_level < 1
    THEN [nhits |-> hits_sum(h.hits), all |-> hits_all(h.hits)]
    ELSE [nhits |-> NotComputed, all |-> FALSE]

Call ==
    /\ pc = "idle"
    /\ \E ll \in LoopMeshes, rfl \in 0..MaxRfl, src \in Sources,
          max_stages \in 1..MaxStages, max_mb \in MaxMbs, fixed_refine_level \in FixedLevels,
          work_in_3d \in BOOLEAN, use_center \in BOOLEAN, resolution_limit \in BOOLEAN,
          singularity_radius \in Radii :
      HitArgs(fixed_refine_level, src, use_center, singularity_radius) /\
      \E self \in {GMesh_init(None, A1(ll[1]), A1(ll[2]), -180 * Deg, FALSE, rfl)} :
      \E o \in {[src_lon |-> src[1], src_lat |-> src[2], max_stages |-> max_stages,
                 max_mb |-> max_mb, fixed_refine_level |-> fixed_refine_level,
                 work_in_3d |-> work_in_3d, use_center |-> use_center,
                 resolution_limit |-> resolution_limit,
                 singularity_radius |-> singularity_radius]} :
      \E h \in {IF fixed_refine_level < 1
                THEN source_hits(self, o.src_lon, o.src_lat, use_center, singularity_radius)
                ELSE [err |-> FALSE]} :
        /\ opts' = o
        /\ this' = self
        /\ GMesh_list' = <<self>>
        /\ mb' = 2 * 8 * self.nj * self.ni
        /\ warned' = FALSE
        /\ IF h.err
           THEN /\ pc' = "error"
                /\ UNCHANGED <<converged, nhits, prev_hits, hits_log>>
           ELSE \E e \in {hits_entry(h, fixed_refine_level)} :
                /\ pc' = "loop"
                /\ nhits' = e.nhits
                /\ prev_hits' = IF fixed_refine_level < 1 THEN 0 ELSE NotComputed
                /\ converged' =
                      \/ fixed_refine_level < 1 /\ (e.all \/ e.nhits = 0)
                      \/ resolution_limit /\ resolution_met(self, o)
                /\ hits_log' = <<e>>

Iterate ==
    /\ pc = "loop"
    /\ while_test(converged, Len(GMesh_list), mb, opts, this.rfl)
    /\ this.nj * this.ni <= MaxLoopCells
    /\ \E m \in {refineby2(this, opts.work_in_3d)} :
       \E h \in {IF m.exc THEN [err |-> TRUE]
                 ELSE IF opts.fixed_refine_level < 1
                 THEN source_hits(m, opts.src_lon, opts.src_lat, FALSE, opts.singularity_radius)
                 ELSE [err |-> FALSE]} :
           IF h.err
           THEN /\ pc' = "error"
                /\ this' = IF m.exc THEN this ELSE m
                /\ UNCHANGED <<opts, GMesh_list, converged, nhits, prev_hits, mb, warned,
                               hits_log>>
           ELSE \E e \in {hits_entry(h, opts.fixed_refine_level)} :
                /\ pc' = "loop"
                /\ this' = m
                /\ nhits' = e.nhits
                /\ prev_hits' = nhits
                /\ converged' =
                      \/ converged
                      \/ opts.fixed_refine_level < 1 /\ (e.all \/ e.nhits = nhits)
                      \/ opts.resolution_limit /\ resolution_met(m, opts)
                /\ mb' = 2 * 8 * m.nj * m.ni
                /\ GMesh_list' = Append(GMesh_list, m)
                /\ hits_log' = Append(hits_log, e)
                /\ UNCHANGED <<opts, warned>>

Return ==
    /\ pc = "loop"
    /\ ~while_test(converged, Len(GMesh_list), mb, opts, this.rfl)
    /\ pc' = "done"
    /\ warned' = ~converged
    /\ UNCHANGED <<opts, this, GMesh_list, converged, nhits, prev_hits, mb, hits_log>>

InitLoop == MeshIdle /\ LoopIdle /\ TWIdle /\ PathIdle /\ StoreIdle

\* A step of the loop once the call is under way
LoopStep ==
    /\ \/ Iterate
       \/ Return
    /\ UNCHANGED <<meshVars, twVars, pathVars, storeVars>>

NextLoop ==
    \/ Call /\ UNCHANGED <<meshVars, twVars, pathVars, storeVars>>
    \/ LoopStep

SpecLoop == InitLoop /\ [][NextLoop]_vars

\* The interpreter runs a call that is under way to its end
FairLoop == SpecLoop /\ WF_vars(LoopStep)

----------------------------------------------------------------------------
(* Properties of refine_loop *)

Running == pc \in {"loop", "done"}
Returned == pc = "done"
LastHits == hits_log[Len(hits_log)]

\* The guard on the size of the mesh in Iterate never stops a loop of the program
CapNeverBinds ==
    (pc = "loop" /\ while_test(converged, Len(GMesh_list), mb, opts, this.rfl))
        => this.nj * this.ni <= MaxLoopCells

\* C5: with fixed_refine_level < 1 the number of source cells hit computed for
\* each mesh of the chain is at least the number computed for the mesh before,
\* for every use_center and singularity_radius.
C5_HitsNonDecreasing ==
    (Running /\ opts.fixed_refine_level < 1) =>
        \A k \in 1..(Len(hits_log) - 1) : hits_log[k + 1].nhits >= hits_log[k].nhits

\* The counts do not decrease when every count is taken on nodes
\* (use_center=False) or the centres are nodes of the next mesh (work_in_3d=True)
C5_NodeHitsNonDecreasing ==
    (Running /\ opts.fixed_refine_level < 1 /\ (~opts.use_center \/ opts.work_in_3d)) =>
        \A k \in 1..(Len(hits_log) - 1) : hits_log[k + 1].nhits >= hits_log[k].nhits

\* A call with use_center=True and work_in_3d=False whose second count is lower
C5_CountDropped ==
    /\ Running /\ opts.fixed_refine_level < 1 /\ opts.use_center /\ ~opts.work_in_3d
    /\ Len(hits_log) >= 2
    /\ hits_log[2].nhits < hits_log[1].nhits

C7_ExactlyL ==
    (Returned /\ opts.fixed_refine_level >= 1) =>
        Len(GMesh_list) = opts.fixed_refine_level + 1

\* Called on a mesh of level 0 the chain does have L + 1 meshes
C7_ExactlyLFromLevel0 ==
    (Returned /\ opts.fixed_refine_level >= 1 /\ GMesh_list[1].rfl = 0) =>
        Len(GMesh_list) = opts.fixed_refine_level + 1

\* Called with L = 1 on a mesh of level 1, the input mesh is returned alone
C7_NoRefinement ==
    /\ Returned /\ opts.fixed_refine_level = 1 /\ GMesh_list[1].rfl = 1
    /\ Len(GMesh_list) = 1

\* C8: refine_loop terminates: a call that has reached the while test returns
\* (or raises) after finitely many passes.
C8_Terminates == (pc = "loop") ~> (pc \in {"done", "error"})

\* When the loop is left, a stop condition of the claim holds
C8_StoppedFor ==
    Returned =>
        IF opts.fixed_refine_level >= 1 THEN this.rfl >= opts.fixed_refine_level
        ELSE \/ converged
             \/ Len(GMesh_list) >= opts.max_stages
             \/ 4 * mb >= opts.max_mb

\* A call that returned after two passes of the loop
C8_ReturnedAfterTwo == Returned /\ Len(GMesh_list) = 3

C9_InputCovers ==
    /\ Returned /\ opts.fixed_refine_level < 1 /\ opts.max_stages >= 2
    /\ hits_log[1].all /\ Len(GMesh_list) = 1

\* The loop was left on the max_stages or max_mb test with cells not hit
EndedByBudget ==
    /\ opts.fixed_refine_level < 1
    /\ ~converged
    /\ Len(GMesh_list) >= opts.max_stages \/ 4 * mb >= opts.max_mb
    /\ ~LastHits.all

\* C10: the warning is printed when, and only when, the loop ended because of
\* the max_stages or max_mb budget while not every source cell was hit.
C10_WarningIffBudget == Returned => (warned <=> EndedByBudget)

\* Without a fixed level the warning is printed exactly in that case
C10_WarningIffBudgetNoFixed ==
    (Returned /\ opts.fixed_refine_level < 1) => (warned <=> EndedByBudget)

\* A call with fixed_refine_level = 1 that reached level 1 and printed the warning
C10_WarnedAtFixedLevel ==
    /\ Returned /\ warned
    /\ opts.fixed_refine_level = 1 /\ this.rfl = 1 /\ Len(GMesh_list) = 2
    /\ Len(GMesh_list) < opts.max_stages /\ 4 * mb < opts.max_mb

----------------------------------------------------------------------------
(* ThinWalls: elevation statistics (class Stats) and the coarsening stages   *)
(*                                                                           *)
(* The grid of SpecTW is one coarse cell: 2 x 2 fine cells, with u-edges of  *)
(* shape (2, 3) and v-edges of shape (3, 2).  The stencils of the stages are *)
(* written for that coarse cell, j = i = 0 in the source's index arrays.     *)

MaxCalls == 2   \* SpecTW: rule stages applied before coarsen, and after it

\* Elevations are fixed point, Metre ticks to the metre.  A stage halves a
\* sum of two values and takes the third of a sum of three at most once, and
\* coarsen quarters a sum of four, so with this many ticks every mean of the
\* model is exact.
Metre == 4 * 6 ^ MaxCalls

zeros(nr, nc) == Arr2(nr, nc, LAMBDA j, i : 0)
np_minimum(A, B) == Arr2(Rows(A), Cols(A), LAMBDA j, i : Min2(At(A, j, i), At(B, j, i)))
np_maximum(A, B) == Arr2(Rows(A), Cols(A), LAMBDA j, i : Max2(At(A, j, i), At(B, j, i)))

\* Stats(shape): three arrays of zeros
Stats(nr, nc) == [low |-> zeros(nr, nc), ave |-> zeros(nr, nc), hgh |-> zeros(nr, nc)]
\* Stats.set_equal, as a new value
set_equal(values) == [low |-> values, ave |-> values, hgh |-> values]

\* The reductions of Stats over 2x2 cells and over pairs of edges
Stats_mean4(S) ==
    Arr2(Rows(S.ave) \div 2, Cols(S.ave) \div 2, LAMBDA j, i :
         ((At(S.ave, 2 * j, 2 * i) + At(S.ave, 2 * j + 1, 2 * i + 1))
          + (At(S.ave, 2 * j, 2 * i + 1) + At(S.ave, 2 * j + 1, 2 * i))) \div 4)
Stats_min4(S) ==
    Arr2(Rows(S.low) \div 2, Cols(S.low) \div 2, LAMBDA j, i :
         Min2(Min2(At(S.low, 2 * j, 2 * i), At(S.low, 2 * j + 1, 2 * i + 1)),
              Min2(At(S.low, 2 * j, 2 * i + 1), At(S.low, 2 * j + 1, 2 * i))))
Stats_max4(S) ==
    Arr2(Rows(S.hgh) \div 2, Cols(S.hgh) \div 2, LAMBDA j, i :
         Max2(Max2(At(S.hgh, 2 * j, 2 * i), At(S.hgh, 2 * j + 1, 2 * i + 1)),
              Max2(At(S.hgh, 2 * j, 2 * i + 1), At(S.hgh, 2 * j + 1, 2 * i))))
Stats_mean2u(S) ==
    Arr2(Rows(S.ave) \div 2, (Cols(S.ave) + 1) \div 2, LAMBDA j, i :
         (At(S.ave, 2 * j, 2 * i) + At(S.ave, 2 * j + 1, 2 * i)) \div 2)
Stats_min2u(S) ==
    Arr2(Rows(S.low) \div 2, (Cols(S.low) + 1) \div 2, LAMBDA j, i :
         Min2(At(S.low, 2 * j, 2 * i), At(S.low, 2 * j + 1, 2 * i)))
Stats_max2u(S) ==
    Arr2(Rows(S.hgh) \div 2, (Cols(S.hgh) + 1) \div 2, LAMBDA j, i :
         Max2(At(S.hgh, 2 * j, 2 * i), At(S.hgh, 2 * j + 1, 2 * i)))
Stats_mean2v(S) ==
    Arr2((Rows(S.ave) + 1) \div 2, Cols(S.ave) \div 2, LAMBDA j, i :
         (At(S.ave, 2 * j, 2 * i) + At(S.ave, 2 * j, 2 * i + 1)) \div 2)
Stats_min2v(S) ==
    Arr2((Rows(S.low) + 1) \div 2, Cols(S.low) \div 2, LAMBDA j, i :
         Min2(At(S.low, 2 * j, 2 * i), At(S.low, 2 * j, 2 * i + 1)))
Stats_max2v(S) ==
    Arr2((Rows(S.hgh) + 1) \div 2, Cols(S.hgh) \div 2, LAMBDA j, i :
         Max2(At(S.hgh, 2 * j, 2 * i), At(S.hgh, 2 * j, 2 * i + 1)))

\* Stats.flip(axis) and Stats.transpose
flip_rows(A) == [j \in 1..Len(A) |-> A[Len(A) + 1 - j]]
flip_cols(A) == [j \in 1..Len(A) |-> [i \in 1..Len(A[j]) |-> A[j][Len(A[j]) + 1 - i]]]
Stats_flip(S, axis) ==
    IF axis = 0
    THEN [low |-> flip_rows(S.low), ave |-> flip_rows(S.ave), hgh |-> flip_rows(S.hgh)]
    ELSE [low |-> flip_cols(S.low), ave |-> flip_cols(S.ave), hgh |-> flip_cols(S.hgh)]
np_T(A) == Arr2(Cols(A), Rows(A), LAMBDA j, i : At(A, i, j))
Stats_transpose(S) == [low |-> np_T(S.low), ave |-> np_T(S.ave), hgh |-> np_T(S.hgh)]

\* ThinWalls.__init__ (lines 133-140): the six Stats of a mesh of shape (nj, ni).
\* The coordinates of the mesh play no part in the stages and are left out.
ThinWalls_Stats(nj, ni) ==
    [exc |-> FALSE, cls |-> "ThinWalls", nj |-> nj, ni |-> ni,
     c_simple |-> Stats(nj, ni), u_simple |-> Stats(nj, ni + 1),
     v_simple |-> Stats(nj + 1, ni),
     c_effective |-> Stats(nj, ni), u_effective |-> Stats(nj, ni + 1),
     v_effective |-> Stats(nj + 1, ni)]

set_cell_mean(self, data) == [self EXCEPT !.c_simple = set_equal(data)]
set_edge_mean(self, datau, datav) ==
    [self EXCEPT !.u_simple = set_equal(datau), !.v_simple = set_equal(datav)]
init_effective_values(self) ==
    [self EXCEPT !.c_effective = self.c_simple, !.u_effective = self.u_simple,
                 !.v_effective = self.v_simple]
set_edge_to_step(self) ==
    LET c == self.c_simple.ave
        tmpu == Arr2(self.nj, self.ni + 1, LAMBDA j, i :
                     IF i = 0 THEN At(c, j, 0)
                     ELSE IF i = self.ni THEN At(c, j, self.ni - 1)
                     ELSE Max2(At(c, j, i - 1), At(c, j, i)))
        tmpv == Arr2(self.nj + 1, self.ni, LAMBDA j, i :
                     IF j = 0 THEN At(c, 0, i)
                     ELSE IF j = self.nj THEN At(c, self.nj - 1, i)
                     ELSE Max2(At(c, j - 1, i), At(c, j, i)))
    IN  [self EXCEPT !.u_simple = set_equal(tmpu), !.v_simple = set_equal(tmpv)]

\* The aliases "C, U, V = self.c_effective, self.u_effective, self.v_effective"
effective(self) == [C |-> self.c_effective, U |-> self.u_effective, V |-> self.v_effective]
with_effective(self, e) ==
    [self EXCEPT !.c_effective = e.C, !.u_effective = e.U, !.v_effective = e.V]

\* ThinWalls.coarsen (lines 1216-1236)
coarsen(self) ==
    [exc |-> FALSE, cls |-> "ThinWalls", nj |-> self.nj \div 2, ni |-> self.ni \div 2,
     c_simple |-> [ave |-> Stats_mean4(self.c_simple), low |-> Stats_min4(self.c_simple),
                   hgh |-> Stats_max4(self.c_simple)],
     u_simple |-> [ave |-> Stats_mean2u(self.u_simple), low |-> Stats_min2u(self.u_simple),
                   hgh |-> Stats_max2u(self.u_simple)],
     v_simple |-> [ave |-> Stats_mean2v(self.v_simple), low |-> Stats_min2v(self.v_simple),
                   hgh |-> Stats_max2v(self.v_simple)],
     c_effective |-> [ave |-> Stats_mean4(self.c_effective), low |-> Stats_min4(self.c_effective),
                      hgh |-> Stats_max4(self.c_effective)],
     u_effective |-> [ave |-> Stats_mean2u(self.u_effective), low |-> Stats_min2u(self.u_effective),
                      hgh |-> Stats_max2u(self.u_effective)],
     v_effective |-> [ave |-> Stats_mean2v(self.v_effective), low |-> Stats_min2v(self.v_effective),
                      hgh |-> Stats_max2v(self.v_effective)]]

\* The lowest of the four edges of each cell (the local He of lines 1242, 1247)
He_of(Uarr, Varr) ==
    Arr2(Rows(Uarr), Cols(Varr), LAMBDA j, i :
         Min2(Min2(At(Uarr, j, i), At(Uarr, j, i + 1)),
              Min2(At(Varr, j, i), At(Varr, j + 1, i))))

\* boundHbyUV with U.hgh and V.hgh bounded by the ave of before the call
boundHbyUV_stale(e) ==
    LET Clow == np_minimum(e.C.low, He_of(e.U.low, e.V.low))
        Uave == np_maximum(e.U.low, e.U.ave)
        Vave == np_maximum(e.V.low, e.V.ave)
        Cave == np_minimum(e.C.ave, He_of(Uave, Vave))
        Uhgh == np_maximum(e.U.ave, e.U.hgh)
        Vhgh == np_maximum(e.V.ave, e.V.hgh)
    IN  [C |-> [low |-> Clow, ave |-> Cave, hgh |-> e.C.hgh],
         U |-> [low |-> e.U.low, ave |-> Uave, hgh |-> Uhgh],
         V |-> [low |-> e.V.low, ave |-> Vave, hgh |-> Vhgh]]

\* ThinWalls.boundHbyUV (lines 1238-1254), on the aliases
boundHbyUV(e) ==
    LET Clow == np_minimum(e.C.low, He_of(e.U.low, e.V.low))
        Uave == np_maximum(e.U.low, e.U.ave)
        Vave == np_maximum(e.V.low, e.V.ave)
        Cave == np_minimum(e.C.ave, He_of(Uave, Vave))
        Uhgh == np_maximum(Uave, e.U.hgh)
        Vhgh == np_maximum(Vave, e.V.hgh)
    IN  [C |-> [low |-> Clow, ave |-> Cave, hgh |-> e.C.hgh],
         U |-> [low |-> e.U.low, ave |-> Uave, hgh |-> Uhgh],
         V |-> [low |-> e.V.low, ave |-> Vave, hgh |-> Vhgh]]

\* ThinWalls.fillPotHoles (lines 1259-1267), on the aliases
fillPotHoles(e) ==
    [e EXCEPT !.C.low = np_maximum(e.C.low, He_of(e.U.low, e.V.low)),
              !.C.ave = np_maximum(e.C.ave, He_of(e.U.ave, e.V.ave))]

\* ThinWalls.sec (lines 207-236) for the inner edges: the array the view is
\* taken of and the place of the coarse cell's element in it
sec(direction) ==
    CASE direction = "N" -> [f |-> "U", j |-> 1, i |-> 1]
      [] direction = "S" -> [f |-> "U", j |-> 0, i |-> 1]
      [] direction = "E" -> [f |-> "V", j |-> 1, i |-> 1]
      [] direction = "W" -> [f |-> "V", j |-> 1, i |-> 0]
      [] direction = "NE" -> [f |-> "C", j |-> 1, i |-> 1]
      [] direction = "NW" -> [f |-> "C", j |-> 1, i |-> 0]
      [] direction = "SE" -> [f |-> "C", j |-> 0, i |-> 1]
      [] direction = "SW" -> [f |-> "C", j |-> 0, i |-> 0]
      [] direction = "NWN" -> [f |-> "V", j |-> 2, i |-> 0]
      [] direction = "NEN" -> [f |-> "V", j |-> 2, i |-> 1]
      [] direction = "SWS" -> [f |-> "V", j |-> 0, i |-> 0]
      [] direction = "SES" -> [f |-> "V", j |-> 0, i |-> 1]
      [] direction = "NEE" -> [f |-> "U", j |-> 1, i |-> 2]
      [] direction = "SEE" -> [f |-> "U", j |-> 0, i |-> 2]
      [] direction = "NWW" -> [f |-> "U", j |-> 1, i |-> 0]
      [] direction = "SWW" -> [f |-> "U", j |-> 0, i |-> 0]
sec_get(e, direction, measure) ==
    At(e[sec(direction).f][measure], sec(direction).j, sec(direction).i)
sec_set(e, direction, measure, v) ==
    [e EXCEPT ![sec(direction).f][measure] = Set2(@, sec(direction).j, sec(direction).i, v)]

od(dir) ==
    CASE dir = "N" -> "S" [] dir = "S" -> "N" [] dir = "E" -> "W" [] dir = "W" -> "E"

\* ThinWalls.find_buttress (lines 309-323)
find_buttress(e, dir, adjust_mean) ==
    LET B1 == IF dir \in {"S", "N"} THEN "W" ELSE "S"
        B2 == IF dir \in {"S", "N"} THEN "E" ELSE "N"
        B3 == od(dir)
        oppo3 == Max2(Max2(sec_get(e, B1, "low"), sec_get(e, B2, "low")),
                      sec_get(e, B3, "low"))
        idx == sec_get(e, dir, "low") > oppo3
        ave3 == Max2(Max2(sec_get(e, B1, "ave"), sec_get(e, B2, "ave")),
                     sec_get(e, B3, "ave"))
    IN  IF ~idx THEN e
        ELSE IF adjust_mean
             THEN sec_set(sec_set(e, dir, "low", oppo3), dir, "ave", ave3)
             ELSE sec_set(e, dir, "low", oppo3)

\* ThinWalls.lower_buttress (lines 302-307): S, N, W, E in turn
lower_buttress(e, adjust_mean) ==
    Bind(find_buttress(e, "S", adjust_mean), LAMBDA e1 :
    Bind(find_buttress(e1, "N", adjust_mean), LAMBDA e2 :
    Bind(find_buttress(e2, "W", adjust_mean), LAMBDA e3 :
         find_buttress(e3, "E", adjust_mean))))

\* ThinWalls.fold_out_central_ridge_s (lines 609-674)
fold_out_central_ridge_s(e, matlab) ==
    LET C == e.C
        U == e.U
        V == e.V
        ew_ridge_low == Min2(At(V.low, 1, 0), At(V.low, 1, 1))
        ew_ridge_hgh == Max2(At(V.hgh, 1, 0), At(V.hgh, 1, 1))
        ew_ridge_ave == (At(V.ave, 1, 0) + At(V.ave, 1, 1)) \div 2
        ns_ridge_low_min == Min2(At(U.low, 0, 1), At(U.low, 1, 1))
        ns_ridge_low_max == Max2(At(U.low, 0, 1), At(U.low, 1, 1))
        selected ==
            /\ ew_ridge_low > ns_ridge_low_min /\ ew_ridge_low >= ns_ridge_low_max
            /\ \/ At(U.low, 0, 1) > At(U.low, 1, 1)
               \/ /\ At(U.low, 0, 1) >= At(U.low, 1, 1)
                  /\ \/ At(C.low, 0, 0) + At(C.low, 0, 1) > At(C.low, 1, 0) + At(C.low, 1, 1)
                     \/ At(V.low, 0, 0) + At(V.low, 0, 1) > At(V.low, 2, 0) + At(V.low, 2, 1)
        \* lines 642-645 and 660: outer edges of the southern half, southern buttress
        Ulow == Set2(Set2(Set2(U.low, 0, 0, Max2(At(U.low, 0, 0), ew_ridge_low)),
                          0, 2, Max2(At(U.low, 0, 2), ew_ridge_low)),
                     0, 1, ns_ridge_low_min)
        \* lines 642-645 and 655-656: outer edges, then the E-W ridge itself
        Vlow == Set2(Set2(Set2(Set2(V.low, 0, 0, Max2(At(V.low, 0, 0), ew_ridge_low)),
                               0, 1, Max2(At(V.low, 0, 1), ew_ridge_low)),
                          1, 0, ns_ridge_low_min),
                     1, 1, ns_ridge_low_min)
        Clow == Set2(Set2(C.low, 0, 0, ns_ridge_low_min), 0, 1, ns_ridge_low_min)
        \* lines 647-654 (matlab): ave raised, hgh set from the new ave
        Uave == Set2(Set2(U.ave, 0, 0, Max2(At(U.ave, 0, 0), ew_ridge_ave)),
                     0, 2, Max2(At(U.ave, 0, 2), ew_ridge_ave))
        Vave == Set2(Set2(V.ave, 0, 0, Max2(At(V.ave, 0, 0), ew_ridge_ave)),
                     0, 1, Max2(At(V.ave, 0, 1), ew_ridge_ave))
        Uhgh == Set2(Set2(U.hgh, 0, 0, Max2(At(Uave, 0, 0), ew_ridge_hgh)),
                     0, 2, Max2(At(Uave, 0, 2), ew_ridge_hgh))
        Vhgh == Set2(Set2(V.hgh, 0, 0, Max2(At(Vave, 0, 0), ew_ridge_hgh)),
                     0, 1, Max2(At(Vave, 0, 1), ew_ridge_hgh))
        \* lines 663-667 (matlab): the southern cells
        north_ave == (At(C.ave, 1, 0) + At(C.ave, 1, 1)) \div 2
        Cave == Set2(Set2(C.ave, 0, 0, north_ave), 0, 1, north_ave)
        Chgh == Set2(Set2(C.hgh, 0, 0, ns_ridge_low_min), 0, 1, ns_ridge_low_min)
    IN  IF ~selected THEN e
        ELSE IF matlab
             THEN [C |-> [low |-> Clow, ave |-> Cave, hgh |-> Chgh],
                   U |-> [low |-> Ulow, ave |-> Uave, hgh |-> Uhgh],
                   V |-> [low |-> Vlow, ave |-> Vave, hgh |-> Vhgh]]
             ELSE [C |-> [C EXCEPT !.low = Clow],
                   U |-> [U EXCEPT !.low = Ulow],
                   V |-> [V EXCEPT !.low = Vlow]]

\* ThinWalls.fold_out_central_ridge_ns (lines 675-749)
fold_out_central_ridge_ns(e) ==
    LET C == e.C
        U == e.U
        V == e.V
        ew_ridge_low == Min2(At(V.low, 1, 0), At(V.low, 1, 1))
        ns_ridge_low_min == Min2(At(U.low, 0, 1), At(U.low, 1, 1))
        ns_ridge_low_max == Max2(At(U.low, 0, 1), At(U.low, 1, 1))
        selected ==
            /\ ew_ridge_low > ns_ridge_low_min /\ ew_ridge_low >= ns_ridge_low_max
            /\ At(U.low, 0, 1) = At(U.low, 1, 1)
            /\ At(C.low, 0, 0) + At(C.low, 0, 1) = At(C.low, 1, 0) + At(C.low, 1, 1)
            /\ At(V.low, 0, 0) + At(V.low, 0, 1) = At(V.low, 2, 0) + At(V.low, 2, 1)
        Ulow == Arr2(2, 3, LAMBDA j, i :
                     IF i = 1 THEN ew_ridge_low ELSE Max2(At(U.low, j, i), ew_ridge_low))
        Vlow == Arr2(3, 2, LAMBDA j, i :
                     IF j = 1 THEN ew_ridge_low ELSE Max2(At(V.low, j, i), ew_ridge_low))
        Clow == Arr2(2, 2, LAMBDA j, i : ew_ridge_low)
    IN  IF ~selected THEN e
        ELSE [C |-> [C EXCEPT !.low = Clow],
              U |-> [U EXCEPT !.low = Ulow],
              V |-> [V EXCEPT !.low = Vlow]]

\* The flips and transposes of fold_out_central_ridges on the three aliases
flip3(e, axis) ==
    [C |-> Stats_flip(e.C, axis), U |-> Stats_flip(e.U, axis), V |-> Stats_flip(e.V, axis)]
\* C.transpose(), U.transpose(), V.transpose(), then u_effective and v_effective swapped
transpose3(e) ==
    [C |-> Stats_transpose(e.C), U |-> Stats_transpose(e.V), V |-> Stats_transpose(e.U)]

\* ThinWalls.fold_out_central_ridges (lines 564-608)
fold_S_and_NS(e, matlab) ==
    Bind(fold_out_central_ridge_s(e, matlab), LAMBDA e1 :
         IF matlab THEN fold_out_central_ridge_ns(e1) ELSE e1)
fold_out_central_ridges(e, matlab) ==
    Bind(fold_S_and_NS(e, matlab), LAMBDA e1 :
    Bind(fold_out_central_ridge_s(flip3(e1, 0), matlab), LAMBDA e2 :
    Bind(fold_S_and_NS(transpose3(e2), matlab), LAMBDA e3 :
    Bind(fold_out_central_ridge_s(flip3(e3, 0), matlab), LAMBDA e4 :
         flip3(flip3(transpose3(e4), 0), 1)))))

----------------------------------------------------------------------------
(* SpecTW: a ThinWalls of 2 x 2 cells is filled, taken through rule stages   *)
(* and coarsened to one cell                                                 *)

\* Elevation data: cells by row (south, north); edges by the height of the
\* outer edges and of the four inner edges S, N (u) and W, E (v)
Heights == {0, Metre}
CellData == {Arr2(2, 2, LAMBDA j, i : IF j = 0 THEN a ELSE b) : a, b \in Heights}
EdgeDataU(o, s, n) == << <<o, s, o>>, <<o, n, o>> >>
EdgeDataV(o, w, e) == << <<o, o>>, <<w, e>>, <<o, o>> >>

Called(name, arg) == [name |-> name, arg |-> arg]
LastCall == IF calls = <<>> THEN "none" ELSE calls[Len(calls)].name
HasCalled(name) == \E k \in 1..Len(calls) : calls[k].name = name
StageNames ==
    {"lower_buttress", "fold_out_central_ridges", "boundHbyUV", "fillPotHoles",
     "push_corners_v2", "push_corners", "fold_ridges", "invert_exterior_corners",
     "limit_NS_EW_connections", "limit_corner_connections"}
\* the rule stages called so far, in order
StagesOf(cs) == SelectSeq(cs, LAMBDA c : c.name \in StageNames)
\* Sequences of stages are followed from the fields of one coarse cell with
\* elevations of 0 m and 1 m; from the other fields, one stage
Seed(t) ==
    /\ t.nj = 2 /\ t.ni = 2
    /\ \A S \in {t.c_simple, t.u_simple, t.v_simple} :
          \A j \in 1..Len(S.ave) : \A i \in 1..Len(S.ave[j]) : S.ave[j][i] <= Metre
\* a rule stage may be called on the fine grid, unless a call has raised
AtStages == HasCalled("init_effective_values") /\ ~HasCalled("coarsen") /\ ~tw.exc
             /\ Len(StagesOf(calls)) < (IF Seed(tw) THEN MaxCalls ELSE 1)

NewThinWalls ==
    /\ calls = <<>>
    /\ tw' = ThinWalls_Stats(2, 2)
    /\ calls' = <<Called("ThinWalls", FALSE)>>

SetCellMean ==
    /\ LastCall = "ThinWalls"
    /\ \E data \in CellData : tw' = set_cell_mean(tw, data)
    /\ calls' = Append(calls, Called("set_cell_mean", FALSE))

SetEdgeMean ==
    /\ LastCall = "set_cell_mean"
    /\ \E o, s, n, w, e \in Heights :
          tw' = set_edge_mean(tw, EdgeDataU(o, s, n), EdgeDataV(o, w, e))
    /\ calls' = Append(calls, Called("set_edge_mean", FALSE))

SetEdgeToStep ==
    /\ LastCall = "set_cell_mean"
    /\ tw' = set_edge_to_step(tw)
    /\ calls' = Append(calls, Called("set_edge_to_step", FALSE))

InitEffectiveValues ==
    /\ LastCall \in {"set_edge_mean", "set_edge_to_step"}
    /\ tw' = init_effective_values(tw)
    /\ calls' = Append(calls, Called("init_effective_values", FALSE))

LowerButtress ==
    /\ AtStages
    /\ \E adjust_mean \in BOOLEAN :
          /\ tw' = with_effective(tw, lower_buttress(effective(tw), adjust_mean))
          /\ calls' = Append(calls, Called("lower_buttress", adjust_mean))

FoldOutCentralRidges ==
    /\ AtStages
    /\ \E matlab \in BOOLEAN :
          /\ tw' = with_effective(tw, fold_out_central_ridges(effective(tw), matlab))
          /\ calls' = Append(calls, Called("fold_out_central_ridges", matlab))

\* boundHbyUV and fillPotHoles: on the fine grid as a stage, or once on the
\* object coarsen returned
BoundHbyUV ==
    /\ AtStages \/ LastCall = "coarsen"
    /\ tw' = with_effective(tw, boundHbyUV(effective(tw)))
    /\ calls' = Append(calls, Called("boundHbyUV", FALSE))

FillPotHoles ==
    /\ AtStages \/ LastCall = "coarsen"
    /\ tw' = with_effective(tw, fillPotHoles(effective(tw)))
    /\ calls' = Append(calls, Called("fillPotHoles", FALSE))

Coarsen ==
    /\ HasCalled("init_effective_values") /\ ~HasCalled("coarsen") /\ ~tw.exc
    /\ tw' = coarsen(tw)
    /\ calls' = Append(calls, Called("coarsen", FALSE))

InitTW == MeshIdle /\ LoopIdle /\ TWIdle /\ PathIdle /\ StoreIdle

NextTW ==
    /\ \/ NewThinWalls
       \/ SetCellMean
       \/ SetEdgeMean
       \/ SetEdgeToStep
       \/ InitEffectiveValues
       \/ LowerButtress
       \/ FoldOutCentralRidges
       \/ BoundHbyUV
       \/ FillPotHoles
       \/ Coarsen
    /\ UNCHANGED <<meshVars, loopVars, pathVars, storeVars>>

SpecTW == InitTW /\ [][NextTW]_vars

----------------------------------------------------------------------------
(* Properties of the coarsening stages *)

\* low <= ave <= hgh at every point of a Stats
Ordered(S) ==
    \A j \in 1..Len(S.low) : \A i \in 1..Len(S.low[j]) :
        S.low[j][i] <= S.ave[j][i] /\ S.ave[j][i] <= S.hgh[j][i]
SimpleOrdered(t) == Ordered(t.c_simple) /\ Ordered(t.u_simple) /\ Ordered(t.v_simple)
EffectiveOrdered(t) ==
    Ordered(t.c_effective) /\ Ordered(t.u_effective) /\ Ordered(t.v_effective)

\* Every mean of the model is exact: n halvings are still possible and the
\* quartering of coarsen after them
Values(S) == Elems(S.low) \cup Elems(S.ave) \cup Elems(S.hgh)
MeansExact ==
    (HasCalled("init_effective_values") /\ ~HasCalled("coarsen"))
        => \A S \in {tw.c_simple, tw.u_simple, tw.v_simple,
                     tw.c_effective, tw.u_effective, tw.v_effective} :
              \A x \in Values(S) :
                 x % (4 * 2 ^ (MaxCalls - Len(StagesOf(calls)))) = 0

\* The stages start from ordered statistics
StartsOrdered ==
    LastCall = "init_effective_values" => SimpleOrdered(tw) /\ EffectiveOrdered(tw)

\* C1: starting from ordered Stats, after any sequence of rule stages followed
\* by coarsen(), each of the six Stats of the returned ThinWalls has
\* low <= ave <= hgh at every point
C1_OrderedAfterCoarsen ==
    LastCall = "coarsen" => SimpleOrdered(tw) /\ EffectiveOrdered(tw)

\* What does hold: the simple Stats, which no stage writes, come out ordered,
\* and so do the effective Stats when no stage ran
C1_SimpleOrderedAfterCoarsen ==
    LastCall = "coarsen" => SimpleOrdered(tw)
C1_OrderedWithoutStages ==
    (LastCall = "coarsen" /\ StagesOf(calls) = <<>>) => EffectiveOrdered(tw)

\* fillPotHoles alone, then coarsen: the cell mean ends above the cell maximum
C1_MeanAboveMax ==
    /\ LastCall = "coarsen"
    /\ Len(StagesOf(calls)) = 1 /\ StagesOf(calls)[1].name = "fillPotHoles"
    /\ At(tw.c_effective.ave, 0, 0) > At(tw.c_effective.hgh, 0, 0)

\* boundHbyUV as the last stage does not repair it
C1_BrokenAfterBound ==
    /\ LastCall = "coarsen"
    /\ calls[Len(calls) - 1].name = "boundHbyUV"
    /\ ~EffectiveOrdered(tw)

----------------------------------------------------------------------------
(* Properties of the planar refinement of a mesh with a node at the pole *)

\* refineby2(work_in_3d=False) was called on a mesh with node arrays of shape
\* (nj+1, ni+1) and a node at lat = 90
PlanarOnPole ==
    /\ op.name = "refineby2" /\ ~op.work_in_3d
    /\ HasShape(parent.lon, parent.nj + 1, parent.ni + 1)
    /\ parent.np_index # <<>>

IsPole(P, j, i) == At(P.lat, j, i) = Pole

\* In M, refined from P, the longitude midpoints next to each pole node of P
\* are the longitude of the neighbouring node in that direction, where that
\* neighbour is not a pole node itself
PoleNeighbourLon(M, P) ==
    \A k \in 1..Len(P.np_index) :
        LET jj == P.np_index[k][1]
            ii == P.np_index[k][2]
        IN  /\ (jj < P.nj /\ ~IsPole(P, jj + 1, ii))
                => At(M.lon, 2 * jj + 1, 2 * ii) = At(P.lon, jj + 1, ii)
            /\ (jj >= 1 /\ ~IsPole(P, jj - 1, ii))
                => At(M.lon, 2 * jj - 1, 2 * ii) = At(P.lon, jj - 1, ii)
            /\ (ii < P.ni /\ ~IsPole(P, jj, ii + 1))
                => At(M.lon, 2 * jj, 2 * ii + 1) = At(P.lon, jj, ii + 1)
            /\ (ii >= 1 /\ ~IsPole(P, jj, ii - 1))
                => At(M.lon, 2 * jj, 2 * ii - 1) = At(P.lon, jj, ii - 1)

\* C20: for a mesh with a node at lat = +90 anywhere in the node array, the
\* last row and the last column included, refineby2(work_in_3d=False)
\* completes without an index error and sets each longitude midpoint next to
\* the pole node to the longitude of the neighbouring non-pole node.
C20_PoleRefines ==
    PlanarOnPole => (IsMesh(mesh) /\ PoleNeighbourLon(mesh, parent))

\* Whenever it does complete, the midpoints are the neighbours' longitudes
C20_NeighbourLonIfReturns ==
    (PlanarOnPole /\ IsMesh(mesh)) => PoleNeighbourLon(mesh, parent)

\* It completes for a pole node inside the first column
C20_ReturnedOnInnerPole ==
    /\ PlanarOnPole /\ IsMesh(mesh)
    /\ \E k \in 1..Len(parent.np_index) :
          parent.np_index[k][2] = 0 /\ parent.np_index[k][1] \in 1..(parent.nj - 1)

\* It raises for a pole node in the last column
C20_RaisedOnLastColumn ==
    /\ PlanarOnPole /\ mesh.exc
    /\ \E k \in 1..Len(parent.np_index) : parent.np_index[k][2] = parent.ni

----------------------------------------------------------------------------
(* Properties of find_nn_uniform_source *)

Found == op.name = "find_nn_uniform_source"

\* floor(1/2 + (lat - origin)/dlat), the j index before line 453 bounds it
nn_j_raw(x, lat) == (2 * (x - lat.origin) + lat.delta) \div (2 * lat.delta)

\* Some node of the mesh has a latitude below (above) the band of the source
NodeBelowBand == \E x \in Elems(mesh.lat) : nn_j_raw(x, op.lat) < 0
NodeAboveBand == \E x \in Elems(mesh.lat) : nn_j_raw(x, op.lat) >= op.lat.n

\* The indices returned are inside the source grid
NNInRange ==
    /\ \A v \in Elems(op.nn.j) : 0 <= v /\ v < op.lat.n
    /\ \A v \in Elems(op.nn.i) : 0 <= v /\ v < op.lon.n

\* C18: find_nn_uniform_source either returns for every node an index pair
\* with 0 <= j < snj and 0 <= i < sni or fails, and it fails whenever some
\* node's latitude is outside the latitude band of the source, above its top
\* edge as well as below its bottom edge.
C18_FailsOutsideBand ==
    Found =>
        /\ op.nn.err \/ NNInRange
        /\ (~op.use_center /\ (NodeBelowBand \/ NodeAboveBand)) => op.nn.err

\* It returns indices in range or fails
C18_InRangeOrFails == Found => (op.nn.err \/ NNInRange)

\* It fails for a node below the band
C18_FailsBelowBand == (Found /\ ~op.use_center /\ NodeBelowBand) => op.nn.err

\* It returned, with the top row of the source as j, for a mesh that has a
\* node above the band and none below it
C18_ReturnedAboveBand ==
    /\ Found /\ ~op.use_center /\ NodeAboveBand /\ ~NodeBelowBand
    /\ ~op.nn.err
    /\ \E v \in Elems(op.nn.j) : v = op.lat.n - 1

\* It failed on the i index: the source does not go round the globe
C18_FailedOnLongitude ==
    /\ Found /\ ~op.use_center /\ ~NodeAboveBand /\ ~NodeBelowBand
    /\ op.nn.err

----------------------------------------------------------------------------
(* Properties of boundHbyUV and fillPotHoles *)

HasEffective == HasCalled("init_effective_values")

\* C13: boundHbyUV and fillPotHoles are each idempotent: for every effective
\* state (C, U, V), applying the operation twice in a row gives exactly the
\* C, U, V (low, ave, hgh) that applying it once gives.
C13_Idempotent ==
    HasEffective =>
        \E e \in {effective(tw)} :
        \E b \in {boundHbyUV(e)} :
        \E f \in {fillPotHoles(e)} :
            /\ boundHbyUV(b) = b
            /\ fillPotHoles(f) = f

\* A second call in a row of the same of the two operations changes nothing
C13_SecondCallNoChange ==
    [][ \A name \in {"boundHbyUV", "fillPotHoles"} :
           (LastCall = name /\ calls' = Append(calls, Called(name, FALSE))) => tw' = tw ]_vars

\* An effective state left by a rule stage that each of the two operations
\* changes
C13_BothChange ==
    /\ HasEffective /\ LastCall \in {"fold_out_central_ridges", "lower_buttress"}
    /\ boundHbyUV(effective(tw)) # effective(tw)
    /\ fillPotHoles(effective(tw)) # effective(tw)

\* An effective state with an edge low above its hgh that boundHbyUV changes
C13_BoundChangesUnordered ==
    /\ HasEffective
    /\ boundHbyUV(effective(tw)) # effective(tw)
    /\ \E j \in 0..2, i \in 0..1 :
          At(tw.v_effective.low, j, i) > At(tw.v_effective.hgh, j, i)

\* boundHbyUV was called twice in a row and the cells are no longer the simple ones
C13_CalledTwice ==
    /\ Len(calls) >= 2 /\ LastCall = "boundHbyUV" /\ calls[Len(calls) - 1].name = "boundHbyUV"
    /\ tw.c_effective # tw.c_simple

----------------------------------------------------------------------------
(* Pathway diagnostics and limiting (ThinWalls.py lines 988-1215) on the    *)
(* arrays U = u_effective.low of shape (2NJ, 2NI+1) and V = v_effective.low *)
(* of shape (2NJ+1, 2NI).  A result is an array of shape (NJ, NI), or a      *)
(* tuple of such arrays in the order of the return statement.               *)

Min4(a, b, c, d) == Min2(Min2(a, b), Min2(c, d))

\* diagnose_NS_pathways with the two-gate route from sw to ne taken through
\* the lower first gate instead of through the lower route
NS_pathways_cell_greedy(U, V, j, i) ==
    LET ne_exit == At(V, 2 * j + 2, 2 * i + 1)
        nw_exit == At(V, 2 * j + 2, 2 * i)
        se_exit == At(V, 2 * j, 2 * i + 1)
        sw_exit == At(V, 2 * j, 2 * i)
        se_to_ne_1 == At(V, 2 * j + 1, 2 * i + 1)
        sw_to_nw_1 == At(V, 2 * j + 1, 2 * i)
        nw_to_ne_1 == At(U, 2 * j + 1, 2 * i + 1)
        ne_to_nw_1 == nw_to_ne_1
        sw_to_se_1 == At(U, 2 * j, 2 * i + 1)
        se_to_sw_1 == sw_to_se_1
        sw_to_ne == IF sw_to_se_1 < sw_to_nw_1 THEN Max2(sw_to_se_1, se_to_ne_1)
                    ELSE Max2(sw_to_nw_1, nw_to_ne_1)
        se_to_nw == Min2(Max2(se_to_sw_1, sw_to_nw_1), Max2(se_to_ne_1, ne_to_nw_1))
        se_to_ne == Min2(se_to_ne_1, Max2(se_to_nw, nw_to_ne_1))
        sw_to_nw == Min2(sw_to_nw_1, Max2(sw_to_ne, ne_to_nw_1))
    IN  << Max2(se_exit, Max2(se_to_ne, ne_exit)),
           Max2(se_exit, Max2(se_to_nw, nw_exit)),
           Max2(sw_exit, Max2(sw_to_ne, ne_exit)),
           Max2(sw_exit, Max2(sw_to_nw, nw_exit)) >>

\* diagnose_NS_pathways with the routes from a south cell to the north cell
\* above it taken through the single gate between them only
NS_pathways_cell_direct(U, V, j, i) ==
    LET ne_exit == At(V, 2 * j + 2, 2 * i + 1)
        nw_exit == At(V, 2 * j + 2, 2 * i)
        se_exit == At(V, 2 * j, 2 * i + 1)
        sw_exit == At(V, 2 * j, 2 * i)
        se_to_ne_1 == At(V, 2 * j + 1, 2 * i + 1)
        sw_to_nw_1 == At(V, 2 * j + 1, 2 * i)
        nw_to_ne_1 == At(U, 2 * j + 1, 2 * i + 1)
        ne_to_nw_1 == nw_to_ne_1
        sw_to_se_1 == At(U, 2 * j, 2 * i + 1)
        se_to_sw_1 == sw_to_se_1
        sw_to_ne == Min2(Max2(sw_to_se_1, se_to_ne_1), Max2(sw_to_nw_1, nw_to_ne_1))
        se_to_nw == Min2(Max2(se_to_sw_1, sw_to_nw_1), Max2(se_to_ne_1, ne_to_nw_1))
        se_to_ne == se_to_ne_1
        sw_to_nw == sw_to_nw_1
    IN  << Max2(se_exit, Max2(se_to_ne, ne_exit)),
           Max2(se_exit, Max2(se_to_nw, nw_exit)),
           Max2(sw_exit, Max2(sw_to_ne, ne_exit)),
           Max2(sw_exit, Max2(sw_to_nw, nw_exit)) >>

\* diagnose_NS_pathways (lines 1022-1066) for the coarse cell (j, i):
\* <<se_to_ne, se_to_nw, sw_to_ne, sw_to_nw>>
NS_pathways_cell(U, V, j, i) ==
    LET ne_exit == At(V, 2 * j + 2, 2 * i + 1)
        nw_exit == At(V, 2 * j + 2, 2 * i)
        se_exit == At(V, 2 * j, 2 * i + 1)
        sw_exit == At(V, 2 * j, 2 * i)
        se_to_ne_1 == At(V, 2 * j + 1, 2 * i + 1)
        sw_to_nw_1 == At(V, 2 * j + 1, 2 * i)
        nw_to_ne_1 == At(U, 2 * j + 1, 2 * i + 1)
        ne_to_nw_1 == nw_to_ne_1
        sw_to_se_1 == At(U, 2 * j, 2 * i + 1)
        se_to_sw_1 == sw_to_se_1
        sw_to_ne == Min2(Max2(sw_to_se_1, se_to_ne_1), Max2(sw_to_nw_1, nw_to_ne_1))
        se_to_nw == Min2(Max2(se_to_sw_1, sw_to_nw_1), Max2(se_to_ne_1, ne_to_nw_1))
        se_to_ne == Min2(se_to_ne_1, Max2(se_to_nw, nw_to_ne_1))
        sw_to_nw == Min2(sw_to_nw_1, Max2(sw_to_ne, ne_to_nw_1))
    IN  << Max2(se_exit, Max2(se_to_ne, ne_exit)),
           Max2(se_exit, Max2(se_to_nw, nw_exit)),
           Max2(sw_exit, Max2(sw_to_ne, ne_exit)),
           Max2(sw_exit, Max2(sw_to_nw, nw_exit)) >>

\* The tuple of arrays a per-cell tuple F(j, i) of length 4 stands for
Tuple4(NJ, NI, F(_, _)) ==
    [k \in 1..4 |-> Arr2(NJ, NI, LAMBDA j, i : F(j, i)[k])]

diagnose_NS_pathways(U, V) ==
    Tuple4(Rows(U) \div 2, Cols(V) \div 2, LAMBDA j, i : NS_pathways_cell(U, V, j, i))

\* numpy.minimum of the four arrays of a tuple
min_of_4(t) ==
    Arr2(Rows(t[1]), Cols(t[1]), LAMBDA j, i :
         Min4(At(t[1], j, i), At(t[2], j, i), At(t[3], j, i), At(t[4], j, i)))

\* diagnose_NS_pathway (lines 1016-1021)
diagnose_NS_pathway(U, V) == min_of_4(diagnose_NS_pathways(U, V))

\* diagnose_EW_pathways (lines 994-1015): u and v are transposed and swapped,
\* diagnose_NS_pathways runs on them, and its results are transposed
diagnose_EW_pathways(U, V) ==
    LET r == diagnose_NS_pathways(np_T(V), np_T(U))
    IN  [k \in 1..4 |-> np_T(r[k])]

\* diagnose_EW_pathway (lines 988-993)
diagnose_EW_pathway(U, V) == min_of_4(diagnose_EW_pathways(U, V))

\* diagnose_SW_pathways (lines 1130-1174) for the coarse cell (j, i):
\* <<sw_to_sw, sw_to_nw, se_to_sw, se_to_nw>>
SW_pathways_cell(U, V, j, i) ==
    LET w_n_exit == At(U, 2 * j + 1, 2 * i)
        w_s_exit == At(U, 2 * j, 2 * i)
        s_e_exit == At(V, 2 * j, 2 * i + 1)
        s_w_exit == At(V, 2 * j, 2 * i)
        se_to_ne_1 == At(V, 2 * j + 1, 2 * i + 1)
        sw_to_nw_1 == At(V, 2 * j + 1, 2 * i)
        nw_to_sw_1 == sw_to_nw_1
        ne_to_nw_1 == At(U, 2 * j + 1, 2 * i + 1)
        se_to_sw_1 == At(U, 2 * j, 2 * i + 1)
        sw_to_se_1 == se_to_sw_1
        se_to_nw_via_ne == Max2(se_to_ne_1, ne_to_nw_1)
        sw_to_nw == Min2(sw_to_nw_1, Max2(sw_to_se_1, se_to_nw_via_ne))
        se_to_nw_via_sw == Max2(se_to_sw_1, sw_to_nw_1)
        se_to_nw == Min2(se_to_nw_via_sw, se_to_nw_via_ne)
        se_to_sw == Min2(Max2(se_to_nw_via_ne, nw_to_sw_1), se_to_sw_1)
    IN  << Max2(s_w_exit, w_s_exit),
           Max2(Max2(sw_to_nw, w_n_exit), s_w_exit),
           Max2(Max2(se_to_sw, w_s_exit), s_e_exit),
           Max2(Max2(se_to_nw, w_n_exit), s_e_exit) >>

diagnose_SW_pathways(U, V) ==
    Tuple4(Rows(U) \div 2, Cols(V) \div 2, LAMBDA j, i : SW_pathways_cell(U, V, j, i))

\* diagnose_SW_pathway (lines 1124-1129)
diagnose_SW_pathway(U, V) == min_of_4(diagnose_SW_pathways(U, V))

\* diagnose_corner_pathways (lines 1091-1123): <<sw, se, ne, nw>>, each found
\* by diagnose_SW_pathway on the flipped arrays and flipped back
diagnose_corner_pathways(U, V) ==
    LET sw == diagnose_SW_pathway(U, V)
        U1 == flip_rows(U)
        V1 == flip_rows(V)
        nw == flip_rows(diagnose_SW_pathway(U1, V1))
        U2 == flip_cols(U1)
        V2 == flip_cols(V1)
        ne == flip_cols(flip_rows(diagnose_SW_pathway(U2, V2)))
        U3 == flip_rows(U2)
        V3 == flip_rows(V2)
        se == flip_cols(diagnose_SW_pathway(U3, V3))
    IN  << sw, se, ne, nw >>

\* A[J, I] = numpy.maximum(A[J, I], c[j, i]) for the cells (j, i) of sel, with
\* J = 2j + dj and I = 2i + di
raise_at(A, sel, c, dj, di) ==
    Arr2(Rows(A), Cols(A), LAMBDA r, q :
         IF \E x \in sel : r = 2 * x[1] + dj /\ q = 2 * x[2] + di
         THEN LET x == CHOOSE y \in sel : r = 2 * y[1] + dj /\ q = 2 * y[2] + di
              IN  Max2(At(A, r, q), At(c, x[1], x[2]))
         ELSE At(A, r, q))

\* limit_NS_EW_connections raising the first segment of a face only
limit_first_segment(U, V, ns, ew) ==
    LET NJ == Rows(U) \div 2
        NI == Cols(V) \div 2
        cells == (0..(NJ - 1)) \X (0..(NI - 1))
        n(x) == Min2(At(V, 2 * x[1] + 2, 2 * x[2]), At(V, 2 * x[1] + 2, 2 * x[2] + 1))
        s(x) == Min2(At(V, 2 * x[1], 2 * x[2]), At(V, 2 * x[1], 2 * x[2] + 1))
        e(x) == Min2(At(U, 2 * x[1], 2 * x[2] + 2), At(U, 2 * x[1] + 1, 2 * x[2] + 2))
        w(x) == Min2(At(U, 2 * x[1], 2 * x[2]), At(U, 2 * x[1] + 1, 2 * x[2]))
        needed_ns(x) == At(ns, x[1], x[2]) > Max2(n(x), s(x))
        south == {x \in cells : needed_ns(x) /\ s(x) >= n(x)}
        north == {x \in cells : needed_ns(x) /\ s(x) <= n(x)}
        V1 == raise_at(V, south, ns, 0, 0)
        V2 == raise_at(V1, north, ns, 2, 0)
        needed_ew(x) == At(ew, x[1], x[2]) > Max2(e(x), w(x))
        west == {x \in cells : needed_ew(x) /\ w(x) >= e(x)}
        east == {x \in cells : needed_ew(x) /\ w(x) <= e(x)}
        U1 == raise_at(U, west, ew, 0, 0)
        U2 == raise_at(U1, east, ew, 0, 2)
    IN  [U |-> U2, V |-> V2]

\* limit_NS_EW_connections (lines 1067-1090): [U, V] after the call
limit_NS_EW_connections(U, V, ns, ew) ==
    LET NJ == Rows(U) \div 2
        NI == Cols(V) \div 2
        cells == (0..(NJ - 1)) \X (0..(NI - 1))
        n(x) == Min2(At(V, 2 * x[1] + 2, 2 * x[2]), At(V, 2 * x[1] + 2, 2 * x[2] + 1))
        s(x) == Min2(At(V, 2 * x[1], 2 * x[2]), At(V, 2 * x[1], 2 * x[2] + 1))
        e(x) == Min2(At(U, 2 * x[1], 2 * x[2] + 2), At(U, 2 * x[1] + 1, 2 * x[2] + 2))
        w(x) == Min2(At(U, 2 * x[1], 2 * x[2]), At(U, 2 * x[1] + 1, 2 * x[2]))
        needed_ns(x) == At(ns, x[1], x[2]) > Max2(n(x), s(x))
        south == {x \in cells : needed_ns(x) /\ s(x) >= n(x)}
        north == {x \in cells : needed_ns(x) /\ s(x) <= n(x)}
        V1 == raise_at(raise_at(V, south, ns, 0, 0), south, ns, 0, 1)
        V2 == raise_at(raise_at(V1, north, ns, 2, 0), north, ns, 2, 1)
        needed_ew(x) == At(ew, x[1], x[2]) > Max2(e(x), w(x))
        west == {x \in cells : needed_ew(x) /\ w(x) >= e(x)}
        east == {x \in cells : needed_ew(x) /\ w(x) <= e(x)}
        U1 == raise_at(raise_at(U, west, ew, 0, 0), west, ew, 1, 0)
        U2 == raise_at(raise_at(U1, east, ew, 0, 2), east, ew, 1, 2)
    IN  [U |-> U2, V |-> V2]

----------------------------------------------------------------------------
(* The pathway operations on one ThinWalls: the fine edge lows are given,   *)
(* the pathways are diagnosed, and then either one edge low is raised and   *)
(* the pathways are diagnosed again, or the outer edges are limited with    *)
(* the diagnosed ns and ew and the grid is coarsened.                       *)

\* Depths of the edge lows
Lows == {0, 1, 2, 3}
Shallow == {0, 1}
Gates == {2, 3}

\* One coarse cell with its twelve edges: U of shape (2, 3), V of shape (3, 2)
OneCell ==
    { [U |-> << <<u[1], u[2], u[3]>>, <<u[4], u[5], u[6]>> >>,
       V |-> << <<v[1], v[2]>>, <<v[3], v[4]>>, <<v[5], v[6]>> >>] :
      u \in [1..6 -> Shallow], v \in [1..6 -> Shallow] }

\* A column of three coarse cells: the four faces f[1..4] from south to north
\* are shallow, the inner gates of cell k are at g[k], the sides are at 0
Column ==
    { [U |-> [r \in 1..6 |-> <<0, g[(r + 1) \div 2], 0>>],
       V |-> [r \in 1..7 |-> IF r % 2 = 1 THEN <<f[(r + 1) \div 2], f[(r + 1) \div 2]>>
                             ELSE <<g[r \div 2], g[r \div 2]>>]] :
      f \in [1..4 -> Shallow], g \in [1..3 -> Gates] }

\* The same as a row of three coarse cells
Row == { [U |-> np_T(c.V), V |-> np_T(c.U)] : c \in Column }

PathFields == OneCell \cup Column \cup Row

\* All the diagnostics of one state
diagnose(U, V) ==
    [NS |-> diagnose_NS_pathways(U, V), EW |-> diagnose_EW_pathways(U, V),
     SW |-> diagnose_SW_pathways(U, V),
     ns |-> diagnose_NS_pathway(U, V), ew |-> diagnose_EW_pathway(U, V),
     corner |-> diagnose_corner_pathways(U, V)]

\* ThinWalls with u_effective.low and v_effective.low given
NewField ==
    /\ pw.phase = "none"
    /\ \E x \in PathFields :
          pw' = [phase |-> "fine", U |-> x.U, V |-> x.V, edge |-> <<>>,
                 diag |-> <<>>, prev |-> <<>>]

\* The diagnostics are called on the state as it is
Diagnose ==
    /\ pw.phase \in {"fine", "raised"}
    /\ pw' = [pw EXCEPT !.phase = IF pw.phase = "fine" THEN "diagnosed" ELSE "rediagnosed",
                        !.diag = diagnose(pw.U, pw.V), !.prev = pw.diag]

\* u_effective.low[j, i] or v_effective.low[j, i] is raised by one level,
\* nothing else
RaiseEdge ==
    /\ pw.phase = "diagnosed"
    /\ \E a \in {"U", "V"} :
       \E j \in 0..(Rows(pw[a]) - 1), i \in 0..(Cols(pw[a]) - 1) :
       \E v \in Lows :
          /\ v = At(pw[a], j, i) + 1
          /\ pw' = [pw EXCEPT !.phase = "raised", ![a] = Set2(@, j, i, v),
                              !.edge = <<a, j, i>>]

\* limit_NS_EW_connections(diagnose_NS_pathway(), diagnose_EW_pathway())
Limit ==
    /\ pw.phase = "diagnosed"
    /\ \E r \in {limit_NS_EW_connections(pw.U, pw.V, pw.diag.ns, pw.diag.ew)} :
          pw' = [pw EXCEPT !.phase = "limited", !.U = r.U, !.V = r.V, !.prev = [U |-> pw.U, V |-> pw.V]]

\* coarsen(): the lows of the coarse edges
CoarsenLows ==
    /\ pw.phase = "limited"
    /\ pw' = [pw EXCEPT !.phase = "coarse",
                        !.U = Stats_min2u([low |-> pw.U]),
                        !.V = Stats_min2v([low |-> pw.V])]

InitPath == MeshIdle /\ LoopIdle /\ TWIdle /\ PathIdle /\ StoreIdle

NextPath ==
    /\ \/ NewField
       \/ Diagnose
       \/ RaiseEdge
       \/ Limit
       \/ CoarsenLows
    /\ UNCHANGED <<meshVars, loopVars, twVars, storeVars>>

SpecPath == InitPath /\ [][NextPath]_vars

----------------------------------------------------------------------------
(* Properties of the pathway diagnostics and of the limiting *)

\* Every element of A is at least the element of B at its place
ArrGE(A, B) ==
    \A j \in 0..(Rows(A) - 1), i \in 0..(Cols(A) - 1) : At(A, j, i) >= At(B, j, i)
TupleGE(s, t) == \A k \in 1..4 : ArrGE(s[k], t[k])

\* No diagnostic of d is below the one of p
DiagGE(d, p) ==
    /\ TupleGE(d.NS, p.NS) /\ TupleGE(d.EW, p.EW) /\ TupleGE(d.SW, p.SW)
    /\ ArrGE(d.ns, p.ns) /\ ArrGE(d.ew, p.ew)
    /\ TupleGE(d.corner, p.corner)

\* C14: every value returned by diagnose_NS_pathways, diagnose_EW_pathways
\* and diagnose_SW_pathways, and by the per-cell minima diagnose_NS_pathway,
\* diagnose_EW_pathway and diagnose_corner_pathways, is monotone
\* non-decreasing in the low of each U and V segment: raising the low of one
\* inner or outer edge, the others held, never lowers a returned depth.
C14_Monotone ==
    pw.phase = "rediagnosed" => DiagGE(pw.diag, pw.prev)

\* The raise of an inner edge that made the N-S pathway of a cell shallower
C14_InnerRaised ==
    /\ pw.phase = "rediagnosed"
    /\ pw.edge[1] = "U" /\ pw.edge[3] = 1
    /\ pw.diag.ns # pw.prev.ns

\* The raise of an outer edge that changed a corner pathway and left the N-S
\* pathway as it was
C14_OuterRaised ==
    /\ pw.phase = "rediagnosed"
    /\ pw.edge[1] = "U" /\ pw.edge[3] = 0
    /\ pw.diag.corner # pw.prev.corner
    /\ pw.diag.ns = pw.prev.ns

Coarsened == pw.phase = "coarse"
CoarseCells == (0..(Rows(pw.U) - 1)) \X (0..(Cols(pw.V) - 1))
MultiCell == Rows(pw.U) * Cols(pw.V) > 1

\* C15: after limit_NS_EW_connections(ns, ew), with ns and ew diagnosed on
\* the same state, and coarsen(), every coarse cell has
\* max(V.low south, V.low north) >= ns and max(U.low west, U.low east) >= ew,
\* on grids of any number of coarse cells, shared faces included.
C15_NoDeeperConnection ==
    Coarsened =>
        \A x \in CoarseCells :
            /\ Max2(At(pw.V, x[1], x[2]), At(pw.V, x[1] + 1, x[2])) >= At(pw.diag.ns, x[1], x[2])
            /\ Max2(At(pw.U, x[1], x[2]), At(pw.U, x[1], x[2] + 1)) >= At(pw.diag.ew, x[1], x[2])

\* A multi-cell grid on which the limiting raised a face shared by two cells
C15_SharedFaceRaised ==
    /\ Coarsened /\ MultiCell /\ Rows(pw.U) = 3
    /\ At(pw.V, 1, 0) > Min2(At(pw.prev.V, 2, 0), At(pw.prev.V, 2, 1))
    /\ At(pw.V, 1, 0) = At(pw.diag.ns, 0, 0)
    /\ At(pw.diag.ns, 1, 0) < At(pw.diag.ns, 0, 0)

\* C16: after limit_NS_EW_connections with the diagnosed deepest N-S pathway
\* ns of each coarse cell, and coarsen(), every coarse cell of a multi-cell
\* grid has min(V.low north, V.low south) <= ns.
C16_PassageKept ==
    (Coarsened /\ MultiCell) =>
        \A x \in CoarseCells :
            Min2(At(pw.V, x[1], x[2]), At(pw.V, x[1] + 1, x[2])) <= At(pw.diag.ns, x[1], x[2])

\* On a single coarse cell the passage is kept
C16_PassageKeptOneCell ==
    (Coarsened /\ ~MultiCell) =>
        Min2(At(pw.V, 0, 0), At(pw.V, 1, 0)) <= At(pw.diag.ns, 0, 0)

\* And so it is in every cell with a face that it shares with no other cell
C16_PassageKeptAtBorder ==
    Coarsened =>
        \A x \in CoarseCells :
            (x[1] = 0 \/ x[1] = Rows(pw.U) - 1) =>
                Min2(At(pw.V, x[1], x[2]), At(pw.V, x[1] + 1, x[2])) <= At(pw.diag.ns, x[1], x[2])

\* The middle cell of a column: both of its faces were raised by its
\* neighbours above its own deepest N-S pathway
C16_MiddleClosed ==
    /\ Coarsened /\ Rows(pw.U) = 3
    /\ At(pw.diag.ns, 1, 0) = 2
    /\ At(pw.V, 1, 0) = 3 /\ At(pw.V, 2, 0) = 3

----------------------------------------------------------------------------
(* Storage: every numpy array is a buffer of the heap; an attribute holds a *)
(* reference to a buffer, whole or as the view A[::2, ::2].  objs.list are  *)
(* the ThinWalls objects made so far, objs.cur the one the calls go to.     *)

MaxStageOps == 1   \* SpecStore: rule stages and diagnostics called in a row

NoRef == [buf |-> 0, step |-> 1]
Ref(k) == [buf |-> k, step |-> 1]
\* A[::2, ::2] of the array r refers to: a view, no new buffer
even_view(r) == [buf |-> r.buf, step |-> 2 * r.step]
\* the array a reference stands for
Deref(h, r) ==
    Arr2((Rows(h[r.buf]) + r.step - 1) \div r.step, (Cols(h[r.buf]) + r.step - 1) \div r.step,
         LAMBDA j, i : At(h[r.buf], j * r.step, i * r.step))
\* A[j, i] = v through the reference r
WriteAt(h, r, j, i, v) == [h EXCEPT ![r.buf] = Set2(@, j * r.step, i * r.step, v)]

StatNames == << "c_simple", "u_simple", "v_simple", "c_effective", "u_effective", "v_effective" >>
StatSet == {StatNames[k] : k \in 1..6}
SimpleSet == {"c_simple", "u_simple", "v_simple"}
EffectiveSet == {"c_effective", "u_effective", "v_effective"}
Measures == {"low", "ave", "hgh"}
\* shape, shapeu, shapev (lines 133-140)
StatShape(name, nj, ni) ==
    CASE name \in {"c_simple", "c_effective"} -> <<nj, ni>>
      [] name \in {"u_simple", "u_effective"} -> <<nj, ni + 1>>
      [] OTHER -> <<nj + 1, ni>>

\* A Stats whose three arrays are the buffers b+1, b+2, b+3
StatsRefs(b) == [low |-> Ref(b + 1), ave |-> Ref(b + 2), hgh |-> Ref(b + 3)]
\* The values of the Stats s
StatsValue(h, s) == [low |-> Deref(h, s.low), ave |-> Deref(h, s.ave), hgh |-> Deref(h, s.hgh)]

\* ThinWalls.__init__ (lines 130-140) after GMesh.__init__ gave g and the
\* arrays lon, lat: six Stats of zeros, three new arrays each
ThinWalls_new(h, g, lon, lat, made_by, src) ==
    LET b == Len(h)
        zs == [k \in 1..18 |->
                  LET sh == StatShape(StatNames[(k - 1) \div 3 + 1], g.nj, g.ni)
                  IN  zeros(sh[1], sh[2])]
    IN  [h |-> h \o zs,
         o |-> [cls |-> "ThinWalls", rfl |-> g.rfl, nj |-> g.nj, ni |-> g.ni,
                np_index |-> g.np_index, lon |-> lon, lat |-> lat, height |-> NoRef,
                st |-> [n \in StatSet |->
                           StatsRefs(b + 3 * ((CHOOSE k \in 1..6 : StatNames[k] = n) - 1))],
                inited |-> FALSE, made_by |-> made_by, src |-> src]]

\* The mesh of an object, as GMesh.__init__ left it
MeshOf(h, o) ==
    [exc |-> FALSE, cls |-> o.cls, nj |-> o.nj, ni |-> o.ni, lon |-> Deref(h, o.lon),
     lat |-> Deref(h, o.lat), np_index |-> o.np_index, rfl |-> o.rfl]
\* The six Stats of an object by value
StatsOf(h, o) ==
    [exc |-> FALSE, cls |-> o.cls, nj |-> o.nj, ni |-> o.ni,
     c_simple |-> StatsValue(h, o.st.c_simple), u_simple |-> StatsValue(h, o.st.u_simple),
     v_simple |-> StatsValue(h, o.st.v_simple),
     c_effective |-> StatsValue(h, o.st.c_effective),
     u_effective |-> StatsValue(h, o.st.u_effective),
     v_effective |-> StatsValue(h, o.st.v_effective)]

\* Stats.set_equal(values) (lines 52-56): three copies of values
store_set_equal(h, o, name, values) ==
    [h |-> h \o <<values, values, values>>,
     o |-> [o EXCEPT !.st[name] = StatsRefs(Len(h))]]

\* Stats.copy (lines 40-43, 57-63): a new Stats with copies of the arrays
store_copy(h, o, name, from) ==
    [h |-> h \o <<Deref(h, o.st[from].low), Deref(h, o.st[from].ave), Deref(h, o.st[from].hgh)>>,
     o |-> [o EXCEPT !.st[name] = StatsRefs(Len(h))]]

\* A Stats that takes the arrays of the other Stats as they are
store_share(h, o, name, from) ==
    [h |-> h, o |-> [o EXCEPT !.st[name] = o.st[from]]]

\* init_effective_values with Stats that share the arrays of the simple ones
store_init_effective_shared(h, o) ==
    LET c == store_share(h, o, "c_effective", "c_simple")
        u == store_share(c.h, c.o, "u_effective", "u_simple")
        v == store_share(u.h, u.o, "v_effective", "v_simple")
    IN  [h |-> v.h, o |-> [v.o EXCEPT !.inited = TRUE]]

\* ThinWalls.init_effective_values (lines 190-194)
store_init_effective_values(h, o) ==
    LET c == store_copy(h, o, "c_effective", "c_simple")
        u == store_copy(c.h, c.o, "u_effective", "u_simple")
        v == store_copy(u.h, u.o, "v_effective", "v_simple")
    IN  [h |-> v.h, o |-> [v.o EXCEPT !.inited = TRUE]]

\* attr.measure = values: the attribute is bound to a new array
rebind(x, name, measure, values) ==
    [h |-> Append(x.h, values),
     o |-> [x.o EXCEPT !.st[name][measure] = Ref(Len(x.h) + 1)]]

\* The effective Stats of an object are bound to the arrays of e, one new
\* array for each attribute in todo
rebind_effective(h, o, e, todo) ==
    LET RECURSIVE go(_, _)
        go(x, rest) ==
            IF rest = <<>> THEN x
            ELSE LET t == rest[1]
                     name == CASE t[1] = "C" -> "c_effective" [] t[1] = "U" -> "u_effective"
                               [] OTHER -> "v_effective"
                 IN  go(rebind(x, name, t[2], e[t[1]][t[2]]), Tail(rest))
    IN  go([h |-> h, o |-> o], todo)

\* ThinWalls.boundHbyUV (lines 1238-1254): six assignments of new arrays
store_boundHbyUV(h, o) ==
    rebind_effective(h, o, boundHbyUV(effective(StatsOf(h, o))),
                     << <<"C", "low">>, <<"U", "ave">>, <<"V", "ave">>, <<"C", "ave">>,
                        <<"U", "hgh">>, <<"V", "hgh">> >>)

\* ThinWalls.fillPotHoles (lines 1259-1267): two assignments of new arrays
store_fillPotHoles(h, o) ==
    rebind_effective(h, o, fillPotHoles(effective(StatsOf(h, o))),
                     << <<"C", "low">>, <<"C", "ave">> >>)

\* ThinWalls.coarsen (lines 1216-1236): M = ThinWalls(lon=self.lon[::2,::2],
\* lat=self.lat[::2,::2]) and eighteen assignments of new arrays to M
store_coarsen(h, o, src) ==
    LET lon == even_view(o.lon)
        lat == even_view(o.lat)
        g == ThinWalls_init(None, A2(Deref(h, lon)), A2(Deref(h, lat)), -180 * Deg, FALSE, 0)
        M == ThinWalls_new(h, g, lon, lat, "coarsen", src)
        c == coarsen(StatsOf(h, o))
        RECURSIVE go(_, _)
        go(x, k) ==
            IF k > 6 THEN x
            ELSE LET n == StatNames[k]
                 IN  go(rebind(rebind(rebind(x, n, "ave", c[n].ave), n, "low", c[n].low),
                               n, "hgh", c[n].hgh), k + 1)
    IN  go(M, 1)

----------------------------------------------------------------------------
(* SpecStore: the life of ThinWalls objects and of their arrays *)

\* Arguments of the constructor: 1-D coordinates, 2-D coordinates (the
\* caller's arrays are kept, line 137), and the default mode for two shapes
StoreInputs ==
    << [mode |-> "1d", shape |-> None, lon |-> A1(<<0, 10 * Deg, 20 * Deg>>),
       lat |-> A1(<<0, 10 * Deg, 20 * Deg>>)],
      [mode |-> "2d", shape |-> None,
       lon |-> A2(<< <<0, 10 * Deg, 20 * Deg>>, <<2 * Deg, 12 * Deg, 22 * Deg>>,
                     <<4 * Deg, 14 * Deg, 24 * Deg>> >>),
       lat |-> A2(<< <<0, 0, 0>>, <<10 * Deg, 10 * Deg, 10 * Deg>>,
                     <<20 * Deg, 20 * Deg, 20 * Deg>> >>)],
      [mode |-> "default", shape |-> A1(<<2, 2>>), lon |-> None, lat |-> None],
      [mode |-> "default", shape |-> A1(<<2, 4>>), lon |-> None, lat |-> None] >>

\* Elevation data of a given shape
Patterns == {"flat", "ramp"}
Pattern(p, nr, nc) ==
    Arr2(nr, nc, LAMBDA j, i : IF p = "flat" THEN 0 ELSE Metre * ((3 * j + i) % 4))
\* A value no array of the model holds otherwise
Mark == 0 - 7

Cur == objs.list[objs.cur]
EvenShape(o) == o.nj >= 2 /\ o.ni >= 2 /\ o.nj % 2 = 0 /\ o.ni % 2 = 0

\* ThinWalls(lon=, lat=, rfl=) or ThinWalls(shape=, rfl=)
NewTW ==
    /\ objs.phase = "none"
    /\ \E k \in 1..Len(StoreInputs), rfl \in Rfls :
       \E x \in {StoreInputs[k]} :
       \E g \in {ThinWalls_init(x.shape, x.lon, x.lat, -180 * Deg, FALSE, rfl)} :
       \E r \in {ThinWalls_new(<<g.lon, g.lat>>, g, Ref(1), Ref(2), x.mode, 0)} :
          /\ heap' = r.h
          /\ objs' = [phase |-> "new", list |-> <<r.o>>, cur |-> 1,
                      last |-> [op |-> "ThinWalls"], nstage |-> 0]

\* ThinWalls.refine (lines 167-170): the new object keeps the arrays of M
StoreRefine ==
    /\ objs.phase = "new" /\ Len(objs.list) = 1
    /\ Cur.nj = 2 /\ Cur.ni = 2
    /\ \E M \in {refineby2(MeshOf(heap, Cur), TRUE)} :
          IF M.exc
          THEN /\ objs' = [objs EXCEPT !.last = [op |-> "refine", raised |-> TRUE]]
               /\ heap' = heap
          ELSE \E g \in {ThinWalls_init(None, A2(M.lon), A2(M.lat), -180 * Deg, FALSE, 0)} :
               \E r \in {ThinWalls_new(heap \o <<M.lon, M.lat>>, g, Ref(Len(heap) + 1),
                                       Ref(Len(heap) + 2), "refine", objs.cur)} :
                  /\ heap' = r.h
                  /\ objs' = [objs EXCEPT !.list = Append(@, r.o), !.cur = Len(objs.list) + 1,
                                          !.last = [op |-> "refine", raised |-> FALSE]]

\* set_cell_mean(data)
StoreSetCellMean ==
    /\ objs.phase = "new"
    /\ \E p \in Patterns :
       \E r \in {store_set_equal(heap, Cur, "c_simple", Pattern(p, Cur.nj, Cur.ni))} :
          /\ heap' = r.h
          /\ objs' = [objs EXCEPT !.phase = "cells", !.list[objs.cur] = r.o,
                                  !.last = [op |-> "set_cell_mean"]]

\* set_edge_mean(datau, datav)
StoreSetEdgeMean ==
    /\ objs.phase = "cells"
    /\ \E u \in {store_set_equal(heap, Cur, "u_simple", Pattern("ramp", Cur.nj, Cur.ni + 1))} :
       \E v \in {store_set_equal(u.h, u.o, "v_simple", Pattern("ramp", Cur.nj + 1, Cur.ni))} :
          /\ heap' = v.h
          /\ objs' = [objs EXCEPT !.phase = "edges", !.list[objs.cur] = v.o,
                                  !.last = [op |-> "set_edge_mean"]]

\* init_effective_values()
StoreInitEffectiveValues ==
    /\ objs.phase = "edges"
    /\ \E r \in {store_init_effective_values(heap, Cur)} :
          /\ heap' = r.h
          /\ objs' = [objs EXCEPT !.phase = "effective", !.list[objs.cur] = r.o,
                                  !.last = [op |-> "init_effective_values"]]

\* A rule stage or a diagnostic may be called on the current object
AtStoreStages == objs.phase \in {"effective", "coarse"} /\ objs.nstage < MaxStageOps

\* What the rule stages that write in place do to the storage (push_corners,
\* lower_buttress, fold_out_central_ridges, limit_NS_EW_connections, ...):
\* an element of an array of an effective Stats is assigned, through the
\* array or a view of it
StageWrite ==
    /\ AtStoreStages
    /\ \E n \in EffectiveSet, m \in Measures :
          /\ heap' = WriteAt(heap, Cur.st[n][m], 0, 0, 0 - Metre)
          /\ objs' = [objs EXCEPT !.nstage = @ + 1,
                                  !.last = [op |-> "stage_write", name |-> n, measure |-> m]]

\* boundHbyUV()
StoreBoundHbyUV ==
    /\ AtStoreStages
    /\ \E r \in {store_boundHbyUV(heap, Cur)} :
          /\ heap' = r.h
          /\ objs' = [objs EXCEPT !.nstage = @ + 1, !.list[objs.cur] = r.o,
                                  !.last = [op |-> "boundHbyUV"]]

\* fillPotHoles()
StoreFillPotHoles ==
    /\ AtStoreStages
    /\ \E r \in {store_fillPotHoles(heap, Cur)} :
          /\ heap' = r.h
          /\ objs' = [objs EXCEPT !.nstage = @ + 1, !.list[objs.cur] = r.o,
                                  !.last = [op |-> "fillPotHoles"]]

\* diagnose_NS_pathway(), diagnose_EW_pathway(), diagnose_corner_pathways()
\* with measure='effective': the transposes and flips of the effective Stats
\* are undone before the call returns, the arrays are only read
DiagnoseEffective ==
    /\ AtStoreStages /\ EvenShape(Cur)
    /\ heap' = heap
    /\ \E e \in {effective(StatsOf(heap, Cur))} :
          objs' = [objs EXCEPT !.nstage = @ + 1,
                               !.last = [op |-> "diagnose",
                                         ns |-> diagnose_NS_pathway(e.U.low, e.V.low),
                                         ew |-> diagnose_EW_pathway(e.U.low, e.V.low)]]

\* M = coarsen(): there is no test of rfl
StoreCoarsen ==
    /\ objs.phase \in {"edges", "effective", "coarse"}
    /\ EvenShape(Cur)
    /\ \E r \in {store_coarsen(heap, Cur, objs.cur)} :
          /\ heap' = r.h
          /\ objs' = [objs EXCEPT !.phase = "coarse", !.list = Append(@, r.o),
                                  !.cur = Len(objs.list) + 1,
                                  !.last = [op |-> "coarsen", rfl |-> Cur.rfl,
                                            raised |-> FALSE, made |-> TRUE]]

\* fine.height = data, for the object the current one was coarsened from;
\* coarsenby2 is the call that follows
SetHeight ==
    /\ objs.phase = "coarse"
    /\ heap' = Append(heap, Pattern("ramp", objs.list[Cur.src].nj, objs.list[Cur.src].ni))
    /\ objs' = [objs EXCEPT !.phase = "height", !.list[Cur.src].height = Ref(Len(heap) + 1),
                            !.last = [op |-> "set_height"]]

\* fine.coarsenby2(coarse) (lines 429-437)
Coarsenby2 ==
    /\ objs.phase \in {"coarse", "height"}
    /\ \E self \in {objs.list[Cur.src]} :
          IF self.rfl = 0 \/ self.height = NoRef
          THEN /\ heap' = heap
               /\ objs' = [objs EXCEPT !.phase = "done",
                                       !.last = [op |-> "coarsenby2", rfl |-> self.rfl,
                                                 raised |-> TRUE, made |-> FALSE]]
          ELSE /\ heap' = Append(heap, Stats_mean4([ave |-> Deref(heap, self.height)]))
               /\ objs' = [objs EXCEPT !.phase = "done",
                                       !.list[objs.cur].height = Ref(Len(heap) + 1),
                                       !.last = [op |-> "coarsenby2", rfl |-> self.rfl,
                                                 raised |-> FALSE, made |-> TRUE]]

\* The arrays of an object: lon, lat and low, ave, hgh of the six Stats
ArraysOf(o) == {o.lon, o.lat} \cup {o.st[n][m] : n \in StatSet, m \in Measures}

\* A[0, 0] = Mark, in place, on an array of one of the objects; the model
\* follows the objects up to this write
WriteElement ==
    /\ objs.phase = "coarse"
    /\ \E k \in 1..Len(objs.list) :
       \E r \in ArraysOf(objs.list[k]) :
          /\ heap' = WriteAt(heap, r, 0, 0, Mark)
          /\ objs' = [objs EXCEPT !.phase = "written",
                                  !.last = [op |-> "write", obj |-> k, ref |-> r]]

InitStore == MeshIdle /\ LoopIdle /\ TWIdle /\ PathIdle /\ StoreIdle

NextStore ==
    /\ \/ NewTW
       \/ StoreRefine
       \/ StoreSetCellMean
       \/ StoreSetEdgeMean
       \/ StoreInitEffectiveValues
       \/ StageWrite
       \/ StoreBoundHbyUV
       \/ StoreFillPotHoles
       \/ DiagnoseEffective
       \/ StoreCoarsen
       \/ SetHeight
       \/ Coarsenby2
       \/ WriteElement
    /\ UNCHANGED <<meshVars, loopVars, twVars, pathVars>>

SpecStore == InitStore /\ [][NextStore]_vars

----------------------------------------------------------------------------
(* Properties of SpecStore *)

\* The object the last coarsen made, and the object it was called on
CoarsenJustReturned == objs.phase = "coarse" /\ objs.last.op = "coarsen"
Parent == objs.list[Cur.src]
\* The first object of the chain an object comes from was made in this mode
RECURSIVE RootMode(_)
RootMode(k) == IF objs.list[k].src = 0 THEN objs.list[k].made_by ELSE RootMode(objs.list[k].src)

\* C17: a coarsening operation called on a mesh with rfl = 0 raises and
\* makes no coarsened result, ThinWalls.coarsen as well as GMesh.coarsenby2
C17_CoarseningFailsAtRfl0 ==
    (objs.phase # "none" /\ objs.last.op \in {"coarsen", "coarsenby2"} /\ objs.last.rfl = 0)
        => (objs.last.raised /\ ~objs.last.made)

\* C17, GMesh.coarsenby2 alone: at rfl = 0 it raises and sets no height
C17_Coarsenby2FailsAtRfl0 ==
    (objs.phase = "done" /\ objs.last.rfl = 0)
        => (objs.last.raised /\ ~objs.last.made /\ Cur.height = NoRef)

\* coarsenby2 was called at rfl = 0 with the height set, and raised
C17_Coarsenby2Raised ==
    /\ objs.phase = "done" /\ objs.last.rfl = 0 /\ objs.last.raised
    /\ Parent.height # NoRef

\* coarsen returned an object when called at rfl = 0: on a constructed
\* object, on the result of refine, on the result of a coarsen
C17_CoarsenReturnedAtRfl0 ==
    /\ CoarsenJustReturned /\ objs.last.rfl = 0 /\ objs.last.made
    /\ Parent.made_by \in {"1d", "2d", "default"}
C17_CoarsenReturnedAfterRefine ==
    /\ CoarsenJustReturned /\ objs.last.rfl = 0 /\ objs.last.made
    /\ Parent.made_by = "refine"
C17_CoarsenReturnedAfterCoarsen ==
    /\ CoarsenJustReturned /\ objs.last.rfl = 0 /\ objs.last.made
    /\ Parent.made_by = "coarsen"

\* The simple Stats of an object by value
SimpleOf(h, o) == [n \in SimpleSet |-> StatsValue(h, o.st[n])]
EffectiveOf(h, o) == [n \in EffectiveSet |-> StatsValue(h, o.st[n])]
\* A rule stage or a diagnostic with measure='effective' is called on an
\* object that init_effective_values was called on
StageStep == objs.phase = "effective" /\ Cur.inited /\ objs'.nstage = objs.nstage + 1

\* C19: after init_effective_values, a rule stage or a diagnostic with
\* measure='effective' leaves low, ave and hgh of c_simple, u_simple and
\* v_simple as they were
C19_SimpleUnchanged ==
    [][StageStep => SimpleOf(heap', objs'.list[objs'.cur]) = SimpleOf(heap, Cur)]_vars

\* C19, the storage: after init_effective_values no array of an effective
\* Stats is an array of a simple Stats
C19_NoSharedStorage ==
    (objs.phase = "effective" /\ Cur.inited)
        => \A n \in EffectiveSet, m \in Measures, n2 \in SimpleSet, m2 \in Measures :
              Cur.st[n][m].buf # Cur.st[n2][m2].buf

\* A stage wrote an element of an effective array, which now differs from
\* the simple one it was copied from
C19_StageWroteEffective ==
    /\ objs.phase = "effective" /\ Cur.inited /\ objs.last.op = "stage_write"
    /\ objs.last.name = "u_effective" /\ objs.last.measure = "low"
    /\ At(Deref(heap, Cur.st.u_effective.low), 0, 0) = 0 - Metre
    /\ At(Deref(heap, Cur.st.u_simple.low), 0, 0) # 0 - Metre
\* boundHbyUV changed the effective values of an object
C19_BoundChangedEffective ==
    /\ objs.phase = "effective" /\ Cur.inited /\ objs.last.op = "boundHbyUV"
    /\ EffectiveOf(heap, Cur).c_effective # SimpleOf(heap, Cur).c_simple

----------------------------------------------------------------------------
(* coarsen(): shapes and values *)

\* The elements a coarse element (j, i) of a field is reduced from: the 2x2
\* block of cells, the two u-segments on column 2i, the two v-segments on
\* row 2j
FineOf(n, j, i) ==
    CASE n \in {"c_simple", "c_effective"} ->
             {<<2 * j, 2 * i>>, <<2 * j + 1, 2 * i>>, <<2 * j, 2 * i + 1>>, <<2 * j + 1, 2 * i + 1>>}
      [] n \in {"u_simple", "u_effective"} -> {<<2 * j, 2 * i>>, <<2 * j + 1, 2 * i>>}
      [] OTHER -> {<<2 * j, 2 * i>>, <<2 * j, 2 * i + 1>>}
RECURSIVE SumOver(_, _)
SumOver(A, S) ==
    IF S = {} THEN 0
    ELSE LET x == CHOOSE y \in S : TRUE IN At(A, x[1], x[2]) + SumOver(A, S \ {x})
\* The coarse Stats c is (min of low, mean of ave, max of hgh) of the fine
\* Stats f, element by element
ReducedFrom(n, c, f) ==
    \A j \in 0..(Rows(c.low) - 1), i \in 0..(Cols(c.low) - 1) :
       LET S == FineOf(n, j, i)
       IN  /\ \E x \in S : At(c.low, j, i) = At(f.low, x[1], x[2])
           /\ \A x \in S : At(c.low, j, i) <= At(f.low, x[1], x[2])
           /\ Cardinality(S) * At(c.ave, j, i) = SumOver(f.ave, S)
           /\ \E x \in S : At(c.hgh, j, i) = At(f.hgh, x[1], x[2])
           /\ \A x \in S : At(c.hgh, j, i) >= At(f.hgh, x[1], x[2])
ShapeOf(A) == <<Rows(A), Cols(A)>>
EvenEven(A) == Arr2((Rows(A) + 1) \div 2, (Cols(A) + 1) \div 2, LAMBDA j, i : At(A, 2 * j, 2 * i))

\* The object coarsen returned is the one described for a parent of shape
\* (2NJ, 2NI)
CoarsenAsDescribed ==
    LET NJ == Parent.nj \div 2
        NI == Parent.ni \div 2
    IN  /\ Cur.nj = NJ /\ Cur.ni = NI
        /\ \A n \in StatSet, m \in Measures :
              ShapeOf(Deref(heap, Cur.st[n][m])) = StatShape(n, NJ, NI)
        /\ ShapeOf(Deref(heap, Cur.lon)) = <<NJ + 1, NI + 1>>
        /\ ShapeOf(Deref(heap, Cur.lat)) = <<NJ + 1, NI + 1>>
        /\ Deref(heap, Cur.lon) = EvenEven(Deref(heap, Parent.lon))
        /\ Deref(heap, Cur.lat) = EvenEven(Deref(heap, Parent.lat))
        /\ \A n \in StatSet :
              ReducedFrom(n, StatsValue(heap, Cur.st[n]), StatsValue(heap, Parent.st[n]))

\* C12: for a ThinWalls of even shape (2NJ, 2NI), coarsen returns a ThinWalls
\* of shape (NJ, NI) with C (NJ, NI), U (NJ, NI+1), V (NJ+1, NI), its nodes
\* the even-even nodes of the parent, and every simple and effective field
\* the (min, mean, max) of its fine elements
C12_CoarsenShapesAndValues == CoarsenJustReturned => CoarsenAsDescribed

\* C12 for objects that come from a constructor call with coordinates
C12_CoarsenWithCoordinates ==
    (CoarsenJustReturned /\ RootMode(objs.cur) # "default") => CoarsenAsDescribed

\* C12, the fields alone: whatever the mode, the arrays of the six Stats
\* have the shapes and the values described
C12_FieldsReduced ==
    CoarsenJustReturned =>
        \A n \in StatSet :
           /\ \A m \in Measures : ShapeOf(Deref(heap, Cur.st[n][m]))
                                      = StatShape(n, Parent.nj \div 2, Parent.ni \div 2)
           /\ ReducedFrom(n, StatsValue(heap, Cur.st[n]), StatsValue(heap, Parent.st[n]))

\* coarsen returned for a parent with effective values that differ from the
\* simple ones, made with coordinates
C12_CoarsenedAfterStage ==
    /\ CoarsenJustReturned /\ RootMode(objs.cur) = "2d" /\ Parent.inited
    /\ EffectiveOf(heap, Parent).u_effective # SimpleOf(heap, Parent).u_simple
    /\ CoarsenAsDescribed
\* coarsen returned an object whose shape is not that of its fields
C12_ShapeNotOfFields ==
    /\ CoarsenJustReturned /\ RootMode(objs.cur) = "default"
    /\ <<Cur.nj, Cur.ni>> # ShapeOf(Deref(heap, Cur.st.c_simple.ave))

----------------------------------------------------------------------------
(* coarsen(): storage *)

\* What an object holds: its nodes and its six Stats, by value
Contents(h, o) ==
    [lon |-> Deref(h, o.lon), lat |-> Deref(h, o.lat),
     st |-> [n \in StatSet |-> StatsValue(h, o.st[n])]]
\* l is the object coarsen returned when called on k
CoarsenedFrom(k, l) == objs.list[l].made_by = "coarsen" /\ objs.list[l].src = k
Related(k, l) == CoarsenedFrom(k, l) \/ CoarsenedFrom(l, k)
WriteStep == objs.phase = "coarse" /\ objs'.phase = "written"

\* C11: the result of coarsen shares no array with its source: an in-place
\* write to an array of either leaves every array of the other unchanged
C11_NoSharedArray ==
    [][WriteStep =>
          \A k \in 1..Len(objs.list) :
             Related(k, objs'.last.obj)
                 => Contents(heap', objs.list[k]) = Contents(heap, objs.list[k])]_vars

\* C11, the Stats alone: a write to an array of the source or of the result
\* leaves low, ave and hgh of the six Stats of the other unchanged
C11_StatsNotShared ==
    [][WriteStep =>
          \A k \in 1..Len(objs.list) :
             Related(k, objs'.last.obj)
                 => Contents(heap', objs.list[k]).st = Contents(heap, objs.list[k]).st]_vars

\* C11, storage: lon and lat of the result are views of the arrays of the
\* source, never arrays of their own
C11_NodesAreViews ==
    \A l \in 1..(IF objs.phase = "none" THEN 0 ELSE Len(objs.list)) :
       objs.list[l].made_by = "coarsen"
           => /\ objs.list[l].lon = even_view(objs.list[objs.list[l].src].lon)
              /\ objs.list[l].lat = even_view(objs.list[objs.list[l].src].lat)

\* lon[0, 0] of the source was written and lon[0, 0] of the result changed
C11_ResultLonChanged ==
    /\ objs.phase = "written" /\ Cur.made_by = "coarsen"
    /\ objs.last.obj = Cur.src /\ objs.last.ref = Parent.lon
    /\ At(Deref(heap, Cur.lon), 0, 0) = Mark
\* lat[0, 0] of the result was written and lat[0, 0] of the source changed
C11_SourceLatChanged ==
    /\ objs.phase = "written" /\ Cur.made_by = "coarsen"
    /\ objs.last.obj = objs.cur /\ objs.last.ref = Cur.lat
    /\ At(Deref(heap, Parent.lat), 0, 0) = Mark
\* an array of a Stats of the source was written and the result kept its own
C11_StatsWriteKept ==
    /\ objs.phase = "written" /\ Cur.made_by = "coarsen"
    /\ objs.last.obj = Cur.src /\ objs.last.ref = Parent.st.c_simple.low
    /\ At(Deref(heap, Parent.st.c_simple.low), 0, 0) = Mark
    /\ At(Deref(heap, Cur.st.c_simple.low), 0, 0) # Mark

----------------------------------------------------------------------------
(* boundHbyUV: centers and edges *)

\* The effective center value of cell (j, i) is at most each of its four edges
CenterBelowEdges(t, m) ==
    \A j \in 0..(t.nj - 1), i \in 0..(t.ni - 1) :
       /\ At(t.c_effective[m], j, i) <= At(t.u_effective[m], j, i)
       /\ At(t.c_effective[m], j, i) <= At(t.u_effective[m], j, i + 1)
       /\ At(t.c_effective[m], j, i) <= At(t.v_effective[m], j, i)
       /\ At(t.c_effective[m], j, i) <= At(t.v_effective[m], j + 1, i)

\* C21: after boundHbyUV, for low, ave and hgh the effective center value of
\* every cell is at most the minimum over the cell's four edges, and every U
\* and V edge has low <= ave <= hgh
C21_CenterBelowEdges ==
    LastCall = "boundHbyUV"
        => /\ \A m \in Measures : CenterBelowEdges(tw, m)
           /\ Ordered(tw.u_effective) /\ Ordered(tw.v_effective)

\* C21 without the hgh of the centers, which boundHbyUV does not bound
C21_LowAveBelowEdges ==
    LastCall = "boundHbyUV"
        => /\ CenterBelowEdges(tw, "low") /\ CenterBelowEdges(tw, "ave")
           /\ Ordered(tw.u_effective) /\ Ordered(tw.v_effective)

\* boundHbyUV returned with the hgh of a center above the hgh of its edges
C21_HghAboveEdges ==
    /\ LastCall = "boundHbyUV" /\ tw.nj = 2
    /\ ~CenterBelowEdges(tw, "hgh")
\* boundHbyUV lowered the low of a center to that of its edges
C21_CenterLowered ==
    /\ LastCall = "boundHbyUV" /\ tw.nj = 2
    /\ At(tw.c_effective.low, 0, 0) < At(tw.c_simple.low, 0, 0)

----------------------------------------------------------------------------
(* The rule stages on a grid of coarse cells.  A coarse cell c = <<cj, ci>>  *)
(* is the block of fine cells 2cj..2cj+1, 2ci..2ci+1; an element of a view   *)
(* sec(d) belongs to the coarse cell it is indexed by.                       *)

\* The coarse cells, as a set and in the row-major order of numpy.nonzero
CellsOf(e) ==
    {<<cj, ci>> : cj \in 0..(Rows(e.C.low) \div 2 - 1), ci \in 0..(Cols(e.C.low) \div 2 - 1)}
CellSeq(e) ==
    [k \in 1..((Rows(e.C.low) \div 2) * (Cols(e.C.low) \div 2)) |->
        <<(k - 1) \div (Cols(e.C.low) \div 2), (k - 1) % (Cols(e.C.low) \div 2)>>]

\* sec(d).m[c], and the write sec(d).m[c] = v
sec_at(e, d, m, c) == At(e[sec(d).f][m], 2 * c[1] + sec(d).j, 2 * c[2] + sec(d).i)
put(d, m, c, v) ==
    [f |-> sec(d).f, m |-> m, j |-> 2 * c[1] + sec(d).j, i |-> 2 * c[2] + sec(d).i, v |-> v]
\* the writes ws, in order
RECURSIVE write_all(_, _)
write_all(e, ws) ==
    IF ws = <<>> THEN e
    ELSE write_all([e EXCEPT ![ws[1].f][ws[1].m] = Set2(@, ws[1].j, ws[1].i, ws[1].v)],
                   Tail(ws))
\* the writes W[c] of the cells of idx, cell after cell
RECURSIVE writes_at(_, _, _)
writes_at(cs, idx, W) ==
    IF cs = <<>> THEN <<>>
    ELSE (IF cs[1] \in idx THEN W[cs[1]] ELSE <<>>) \o writes_at(Tail(cs), idx, W)

\* max_Stats (lines 110-115)
max_Stats(e1, e2) ==
    [low |-> Max2(e1.low, e2.low), ave |-> Max2(e1.ave, e2.ave), hgh |-> Max2(e1.hgh, e2.hgh)]
\* sec(d)[c] as a StatsBase
stats_at(e, d, c) ==
    [low |-> sec_at(e, d, "low", c), ave |-> sec_at(e, d, "ave", c),
     hgh |-> sec_at(e, d, "hgh", c)]
\* sec(d)[c] = s, without the maximum
assign_stats(e, d, c, s) ==
    << put(d, "low", c, s.low), put(d, "hgh", c, s.hgh), put(d, "ave", c, s.ave) >>
\* sec(d)[c] = max_Stats(sec(d)[c], s): __setitem__ writes low, hgh, ave
raise_stats(e, d, c, s) ==
    << put(d, "low", c, Max2(sec_at(e, d, "low", c), s.low)),
       put(d, "hgh", c, Max2(sec_at(e, d, "hgh", c), s.hgh)),
       put(d, "ave", c, Max2(sec_at(e, d, "ave", c), s.ave)) >>

\* dir[0], dir[1] of a corner and the outer edges dir+dir[0], dir+dir[1]
Corners == <<"SW", "SE", "NW", "NE">>
dir0(dir) == IF dir \in {"SW", "SE"} THEN "S" ELSE "N"
dir1(dir) == IF dir \in {"SW", "NW"} THEN "W" ELSE "E"
corner_of(d0, d1) ==
    CASE d0 = "S" /\ d1 = "W" -> "SW" [] d0 = "S" /\ d1 = "E" -> "SE"
      [] d0 = "N" /\ d1 = "W" -> "NW" [] OTHER -> "NE"
outer0(dir) ==
    CASE dir = "SW" -> "SWS" [] dir = "SE" -> "SES" [] dir = "NW" -> "NWN" [] OTHER -> "NEN"
outer1(dir) ==
    CASE dir = "SW" -> "SWW" [] dir = "SE" -> "SEE" [] dir = "NW" -> "NWW" [] OTHER -> "NEE"

\* find_corner (lines 273-277): the inner corner, the opposite ridge, idx
corner_inner(e, dir, c) ==
    [low |-> Min2(sec_at(e, dir0(dir), "low", c), sec_at(e, dir1(dir), "low", c)),
     ave |-> (sec_at(e, dir0(dir), "ave", c) + sec_at(e, dir1(dir), "ave", c)) \div 2,
     hgh |-> Max2(sec_at(e, dir0(dir), "hgh", c), sec_at(e, dir1(dir), "hgh", c))]
opp_ridge(e, dir, c) ==
    Max2(sec_at(e, od(dir0(dir)), "low", c), sec_at(e, od(dir1(dir)), "low", c))
\* corner_idx taking a corner level with the opposite ridge for a high one
corner_idx_level(e, dir) ==
    {c \in CellsOf(e) : corner_inner(e, dir, c).low >= opp_ridge(e, dir, c)}
corner_idx(e, dir) == {c \in CellsOf(e) : corner_inner(e, dir, c).low > opp_ridge(e, dir, c)}
\* lines 282-284: the mean of the three other fine cells
opp_mean(e, dir, c) ==
    (sec_at(e, corner_of(od(dir0(dir)), dir1(dir)), "ave", c)
     + sec_at(e, corner_of(dir0(dir), od(dir1(dir))), "ave", c)
     + sec_at(e, corner_of(od(dir0(dir)), od(dir1(dir))), "ave", c)) \div 3

\* ThinWalls.find_corner (lines 265-300): the writes at one cell of idx
find_corner_writes(e, dir, c, adjust_centers, matlab) ==
    LET R0 == dir0(dir)
        R1 == dir1(dir)
        r == opp_ridge(e, dir, c)
    IN  << put(R0, "low", c, r), put(R1, "low", c, r) >>
        \o (IF ~adjust_centers THEN <<>>
            ELSE IF matlab
                 THEN << put(dir, "low", c, r), put(dir, "ave", c, opp_mean(e, dir, c)),
                         put(dir, "hgh", c, r) >>
                 ELSE << put(dir, "low", c, r),
                         put(dir, "ave", c, Max2(sec_at(e, dir, "ave", c), opp_mean(e, dir, c))),
                         put(dir, "hgh", c, Max2(sec_at(e, dir, "hgh", c), r)) >>)
        \o (IF matlab THEN <<>>
            ELSE << put(R0, "ave", c, r), put(R1, "ave", c, r),
                    put(R0, "hgh", c, r), put(R1, "hgh", c, r) >>)

\* ThinWalls.find_corner: returns idx and inner[idx], the fields are written
find_corner(e, dir, adjust_centers, matlab) ==
    LET idx == corner_idx(e, dir)
    IN  [e |-> write_all(e, writes_at(CellSeq(e), idx,
                                    [c \in idx |-> find_corner_writes(e, dir, c, adjust_centers,
                                                                      matlab)])),
         idx |-> idx,
         corner |-> [c \in idx |-> corner_inner(e, dir, c)]]

\* ThinWalls.push_corner (lines 256-263)
push_corner(e, dir, idx, corner) ==
    LET e1 == write_all(e, writes_at(CellSeq(e), idx,
                                     [c \in idx |-> raise_stats(e, outer0(dir), c, corner[c])]))
    IN  write_all(e1, writes_at(CellSeq(e), idx,
                                [c \in idx |-> raise_stats(e1, outer1(dir), c, corner[c])]))

\* The four find_corner calls, then the four push_corner calls, for the
\* corners in the order given; the fields and the four idx
RECURSIVE find_corners(_, _, _, _)
find_corners(e, order, adjust_centers, matlab) ==
    IF order = <<>> THEN [e |-> e, found |-> <<>>]
    ELSE LET f == find_corner(e, order[1], adjust_centers, matlab)
             rest == find_corners(f.e, Tail(order), adjust_centers, matlab)
         IN  [e |-> rest.e,
              found |-> <<[dir |-> order[1], idx |-> f.idx, corner |-> f.corner]>> \o rest.found]
RECURSIVE push_found(_, _)
push_found(e, found) ==
    IF found = <<>> THEN e
    ELSE push_found(push_corner(e, found[1].dir, found[1].idx, found[1].corner), Tail(found))
push_corners_in(e, order, adjust_centers, matlab) ==
    LET f == find_corners(e, order, adjust_centers, matlab)
    IN  [e |-> push_found(f.e, f.found), found |-> f.found]

\* push_corners_v2 with the halves of lines 251-254 swapped: the perpendicular
\* outer edge of each corner is the one of the corner across
push_corners_v2_crossed(e, adjust_centers, matlab) ==
    LET f == find_corners(e, Corners, adjust_centers, matlab)
    IN  push_found(f.e, [k \in 1..4 |-> [f.found[k] EXCEPT !.dir = Corners[5 - k]]])

\* ThinWalls.push_corners_v2 (lines 238-254): SW, SE, NW, NE
push_corners_v2(e, adjust_centers, matlab) ==
    push_corners_in(e, Corners, adjust_centers, matlab).e

\* ThinWalls.push_corners_sw (lines 467-514): the SW corner of every coarse
\* cell, as the arrays stand (flipped or not)
push_corners_sw_writes(e, c, update_interior_mean_max, matlab) ==
    LET crnr == corner_inner(e, "SW", c)
        r == opp_ridge(e, "SW", c)
        opp_cmean == opp_mean(e, "SW", c)
    IN  << put("S", "low", c, r), put("W", "low", c, r),
           put("SWW", "low", c, Max2(sec_at(e, "SWW", "low", c), crnr.low)),
           put("SWS", "low", c, Max2(sec_at(e, "SWS", "low", c), crnr.low)),
           put("SWW", "ave", c, Max2(sec_at(e, "SWW", "ave", c), crnr.ave)),
           put("SWS", "ave", c, Max2(sec_at(e, "SWS", "ave", c), crnr.ave)),
           put("SWW", "hgh", c, Max2(sec_at(e, "SWW", "hgh", c), crnr.hgh)),
           put("SWS", "hgh", c, Max2(sec_at(e, "SWS", "hgh", c), crnr.hgh)),
           put("SW", "low", c, r) >>
        \o (IF matlab THEN << put("SW", "ave", c, opp_cmean), put("SW", "hgh", c, r) >>
            ELSE IF update_interior_mean_max
                 THEN << put("SW", "ave", c, Max2(sec_at(e, "SW", "ave", c), opp_cmean)),
                         put("SW", "hgh", c, Max2(sec_at(e, "SW", "hgh", c), r)),
                         put("S", "ave", c, r), put("W", "ave", c, r),
                         put("S", "hgh", c, r), put("W", "hgh", c, r) >>
                 ELSE <<>>)
push_corners_sw(e, update_interior_mean_max, matlab) ==
    LET idx == corner_idx(e, "SW")
    IN  [e |-> write_all(e, writes_at(CellSeq(e), idx,
                  [c \in idx |-> push_corners_sw_writes(e, c, update_interior_mean_max, matlab)])),
         idx |-> idx]

\* The flips that bring a corner to the south-west, and the coarse cell of
\* the unflipped arrays a cell of the flipped ones is
flipped(e, dir) ==
    LET e0 == IF dir0(dir) = "N" THEN flip3(e, 0) ELSE e
    IN  IF dir1(dir) = "E" THEN flip3(e0, 1) ELSE e0
unflipped_cell(e, dir, c) ==
    << IF dir0(dir) = "N" THEN Rows(e.C.low) \div 2 - 1 - c[1] ELSE c[1],
       IF dir1(dir) = "E" THEN Cols(e.C.low) \div 2 - 1 - c[2] ELSE c[2] >>

\* push_corners_sw for the corners in the order given, each in its flipped
\* arrays; the fields and the idx of every corner
RECURSIVE push_corners_in_order(_, _, _, _)
push_corners_in_order(e, order, update_interior_mean_max, matlab) ==
    IF order = <<>> THEN [e |-> e, found |-> <<>>]
    ELSE LET p == push_corners_sw(flipped(e, order[1]), update_interior_mean_max, matlab)
             rest == push_corners_in_order(flipped(p.e, order[1]), Tail(order),
                                           update_interior_mean_max, matlab)
         IN  [e |-> rest.e,
              found |-> <<[dir |-> order[1],
                           idx |-> {unflipped_cell(e, order[1], c) : c \in p.idx}]>>
                        \o rest.found]

\* ThinWalls.push_corners (lines 432-466): SW, flip j, NW, flip i, NE, flip j,
\* SE, flip i
push_corners(e, update_interior_mean_max, matlab) ==
    LET sw == push_corners_sw(e, update_interior_mean_max, matlab).e
        nw == push_corners_sw(flip3(sw, 0), update_interior_mean_max, matlab).e
        ne == push_corners_sw(flip3(nw, 1), update_interior_mean_max, matlab).e
        se == push_corners_sw(flip3(ne, 0), update_interior_mean_max, matlab).e
    IN  flip3(se, 1)

\* invert_exterior_corners (lines 756-769): the exterior corner d, the
\* interior sill s and the diagonal ridge r of a corner of a coarse cell
d_corner(e, dir, c) ==
    Max2(sec_at(e, outer1(dir), "low", c), sec_at(e, outer0(dir), "low", c))
s_corner(e, dir, c) ==
    Min2(sec_at(e, dir0(dir), "low", c), sec_at(e, dir1(dir), "low", c))
r_corner(e, dir, c) ==
    Max2(sec_at(e, dir0(dir), "low", c), sec_at(e, dir1(dir), "low", c))
\* lines 771-785: the cells where the corner is the deepest
deepest_idx(e, dir) ==
    {c \in CellsOf(e) :
        /\ \A k \in 1..4 : Corners[k] # dir => d_corner(e, dir, c) < d_corner(e, Corners[k], c)
        /\ d_corner(e, dir, c) < s_corner(e, dir, c)}

\* The corner next to dir along the row (a) and along the column (b), and the
\* outer edges raised for dir: two by the ridge of a, two by the lower of the
\* two ridges, two by the ridge of b (lines 829-835, 880-886, 930-936, 980-986)
corner_a(dir) == corner_of(dir0(dir), od(dir1(dir)))
corner_b(dir) == corner_of(od(dir0(dir)), dir1(dir))
corner_opp(dir) == corner_of(od(dir0(dir)), od(dir1(dir)))
raised_outer(dir) ==
    << outer0(corner_a(dir)), outer1(corner_a(dir)), outer1(corner_opp(dir)),
       outer0(corner_opp(dir)), outer0(corner_b(dir)), outer1(corner_b(dir)) >>

\* "Apply" of one corner: the writes at one cell.  d, ra, rb are the values
\* of lines 756-769, taken before any write; e is the fields as they stand.
\* An outer edge of a coarse cell is also one of the cell next to it, and each
\* statement reads the edge as the statements before it left it.  The first
\* three and the last three outer edges of raised_outer have no edge in
\* common between any two cells, so the writes are taken in two parts: the
\* interior and the first three outer edges, then the last three.
invert_writes(e, dir, c, d, ra, rb, matlab, part) ==
    LET inner == << "S", "N", "W", "E" >>
        cells == << "SW", "SE", "NW", "NE" >>
        out == raised_outer(dir)
        ks == IF part = 1 THEN << 1, 2, 3 >> ELSE << 4, 5, 6 >>
        up(k, m, v) == put(out[k], m, c, Max2(sec_at(e, out[k], m, c), v))
        r(k) == IF k \in {1, 2} THEN ra ELSE IF k \in {5, 6} THEN rb ELSE Min2(ra, rb)
    IN  IF matlab
        THEN (IF part = 1 THEN [k \in 1..4 |-> put(inner[k], "low", c, d)] ELSE <<>>)
             \o [k \in 1..3 |-> up(ks[k], "low", Min2(ra, rb))]
             \o [k \in 1..3 |-> up(ks[k], "ave", (ra + rb) \div 2)]
             \o [k \in 1..3 |-> up(ks[k], "hgh", Max2(ra, rb))]
        ELSE (IF part = 1
              THEN [k \in 1..4 |->
                       put(inner[k], "low", c, Min2(sec_at(e, inner[k], "low", c), d))]
                   \o [k \in 1..4 |->
                          put(cells[k], "low", c, Min2(sec_at(e, cells[k], "low", c), d))]
              ELSE <<>>)
             \o [k \in 1..3 |-> up(ks[k], "low", r(ks[k]))]

invert_part(e, e0, dir, idx, matlab, part) ==
    write_all(e, writes_at(CellSeq(e), idx,
        [c \in idx |-> invert_writes(e, dir, c, d_corner(e0, dir, c),
                                     r_corner(e0, corner_a(dir), c),
                                     r_corner(e0, corner_b(dir), c), matlab, part)]))

\* ThinWalls.invert_exterior_corners (lines 750-987): SW, SE, NW, NE applied
\* in turn with the d, s, r and the selections of the fields e0 of the call
RECURSIVE invert_apply(_, _, _, _)
invert_apply(e, e0, order, matlab) ==
    IF order = <<>> THEN e
    ELSE LET idx == deepest_idx(e0, order[1])
             e1 == invert_part(e, e0, order[1], idx, matlab, 1)
         IN  invert_apply(invert_part(e1, e0, order[1], idx, matlab, 2), e0, Tail(order),
                          matlab)
invert_exterior_corners(e, matlab) == invert_apply(e, e, Corners, matlab)


\* find_buttress on a grid of NJ x NI coarse cells.  Line 322 assigns the
\* whole NJ x NI array of maxima to the n selected elements: numpy drops the
\* leading dimensions of size one of the value and broadcasts the rest to
\* (n,), or raises ValueError
oppo3(e, dir, m, c) ==
    LET B1 == IF dir \in {"S", "N"} THEN "W" ELSE "S"
        B2 == IF dir \in {"S", "N"} THEN "E" ELSE "N"
    IN  Max2(Max2(sec_at(e, B1, m, c), sec_at(e, B2, m, c)), sec_at(e, od(dir), m, c))
buttress_idx(e, dir) == {c \in CellsOf(e) : sec_at(e, dir, "low", c) > oppo3(e, dir, "low", c)}
broadcasts(NJ, NI, n) == NJ = 1 /\ (NI = n \/ NI = 1)
\* the k-th selected cell, in the row-major order of numpy.nonzero
selected(e, idx) == SelectSeq(CellSeq(e), LAMBDA c : c \in idx)
\* the fields after find_buttress, and whether it raised
find_buttress_grid(e, dir, adjust_mean) ==
    LET idx == buttress_idx(e, dir)
        NJ == Rows(e.C.low) \div 2
        NI == Cols(e.C.low) \div 2
        sel == selected(e, idx)
        e1 == write_all(e, [k \in 1..Len(sel) |->
                               put(dir, "low", sel[k], oppo3(e, dir, "low", sel[k]))])
    IN  IF ~adjust_mean THEN [e |-> e1, exc |-> FALSE]
        ELSE IF ~broadcasts(NJ, NI, Len(sel)) THEN [e |-> e1, exc |-> TRUE]
        ELSE [e |-> write_all(e1, [k \in 1..Len(sel) |->
                        put(dir, "ave", sel[k],
                            oppo3(e1, dir, "ave", <<0, IF NI = 1 THEN 0 ELSE k - 1>>))]),
              exc |-> FALSE]

\* ThinWalls.lower_buttress (lines 302-307) on a grid: S, N, W, E in turn,
\* until one raises
RECURSIVE lower_buttress_from(_, _, _)
lower_buttress_from(e, dirs, adjust_mean) ==
    IF dirs = <<>> THEN [e |-> e, exc |-> FALSE]
    ELSE LET f == find_buttress_grid(e, dirs[1], adjust_mean)
         IN  IF f.exc THEN f ELSE lower_buttress_from(f.e, Tail(dirs), adjust_mean)
lower_buttress_grid(e, adjust_mean) == lower_buttress_from(e, <<"S", "N", "W", "E">>, adjust_mean)

\* ThinWalls.find_ridge (lines 350-411).  The sections of a side dir
ridge_secs(dir) ==
    IF dir \in {"S", "N"}
    THEN [R0 |-> "W", R1 |-> "E", Ba |-> dir, Bb |-> od(dir),
          Ca0 |-> corner_of(dir, "W"), Ca1 |-> corner_of(dir, "E"),
          Cb0 |-> corner_of(od(dir), "W"), Cb1 |-> corner_of(od(dir), "E"),
          Ea0 |-> outer0(corner_of(dir, "W")), Ea1 |-> outer0(corner_of(dir, "E")),
          Eb0 |-> outer0(corner_of(od(dir), "W")), Eb1 |-> outer0(corner_of(od(dir), "E"))]
    ELSE [R0 |-> "N", R1 |-> "S", Ba |-> dir, Bb |-> od(dir),
          Ca0 |-> corner_of("N", dir), Ca1 |-> corner_of("S", dir),
          Cb0 |-> corner_of("N", od(dir)), Cb1 |-> corner_of("S", od(dir)),
          Ea0 |-> outer1(corner_of("N", dir)), Ea1 |-> outer1(corner_of("S", dir)),
          Eb0 |-> outer1(corner_of("N", od(dir))), Eb1 |-> outer1(corner_of("S", od(dir)))]
central(e, dir, c) ==
    LET s == ridge_secs(dir)
    IN  [low |-> Min2(sec_at(e, s.R0, "low", c), sec_at(e, s.R1, "low", c)),
         ave |-> (sec_at(e, s.R0, "ave", c) + sec_at(e, s.R1, "ave", c)) \div 2,
         hgh |-> Max2(sec_at(e, s.R0, "hgh", c), sec_at(e, s.R1, "hgh", c))]
oppos_low_min(e, dir, c) ==
    Min2(sec_at(e, ridge_secs(dir).Ba, "low", c), sec_at(e, ridge_secs(dir).Bb, "low", c))
oppos_low_max(e, dir, c) ==
    Max2(sec_at(e, ridge_secs(dir).Ba, "low", c), sec_at(e, ridge_secs(dir).Bb, "low", c))
ridge_idx(e, dir, equal) ==
    LET s == ridge_secs(dir)
        L(d, c) == sec_at(e, d, "low", c)
        ridges(c) == /\ central(e, dir, c).low > oppos_low_min(e, dir, c)
                     /\ central(e, dir, c).low >= oppos_low_max(e, dir, c)
        same_cells(c) == L(s.Ca0, c) + L(s.Ca1, c) = L(s.Cb0, c) + L(s.Cb1, c)
        equal_sides(c) == /\ L(s.Ba, c) = L(s.Bb, c)
                          /\ same_cells(c)
                          /\ L(s.Ea0, c) + L(s.Ea1, c) = L(s.Eb0, c) + L(s.Eb1, c)
        high_buttress(c) == L(s.Ba, c) > L(s.Bb, c)
        high_cell(c) == L(s.Ba, c) = L(s.Bb, c) /\ L(s.Ca0, c) + L(s.Ca1, c) > L(s.Cb0, c) + L(s.Cb1, c)
        high_edge(c) == /\ L(s.Ba, c) = L(s.Bb, c)
                        /\ same_cells(c)
                        /\ L(s.Ea0, c) + L(s.Ea1, c) > L(s.Eb0, c) + L(s.Eb1, c)
    IN  {c \in CellsOf(e) :
            ridges(c) /\ (IF equal THEN equal_sides(c)
                          ELSE high_buttress(c) \/ high_cell(c) \/ high_edge(c))}
find_ridge_writes(e, dir, c, equal, adjust_centers) ==
    LET s == ridge_secs(dir)
        m == oppos_low_min(e, dir, c)
        cb == (sec_at(e, s.Cb0, "ave", c) + sec_at(e, s.Cb1, "ave", c)) \div 2
    IN  << put(s.R0, "low", c, m), put(s.R1, "low", c, m), put(s.Ba, "low", c, m) >>
        \o (IF equal THEN << put(s.Bb, "low", c, m) >> ELSE <<>>)
        \o (IF ~adjust_centers THEN <<>>
            ELSE << put(s.Ca0, "low", c, m), put(s.Ca1, "low", c, m),
                    put(s.Ca0, "ave", c, cb), put(s.Ca1, "ave", c, cb),
                    put(s.Ca0, "hgh", c, m), put(s.Ca1, "hgh", c, m) >>
                 \o (IF ~equal THEN <<>>
                     ELSE << put(s.Cb0, "low", c, m), put(s.Cb1, "low", c, m),
                             put(s.Cb0, "ave", c, cb), put(s.Cb1, "ave", c, cb),
                             put(s.Cb0, "hgh", c, m), put(s.Cb1, "hgh", c, m) >>))
\* find_ridge returns idx and ridges[idx], the elements of a boolean array
find_ridge(e, dir, equal, adjust_centers) ==
    LET idx == ridge_idx(e, dir, equal)
    IN  [e |-> write_all(e, writes_at(CellSeq(e), idx,
                  [c \in idx |-> find_ridge_writes(e, dir, c, equal, adjust_centers)])),
         idx |-> idx,
         ridges |-> [cls |-> "ndarray", at |-> [c \in idx |-> TRUE]]]
\* ThinWalls.fold_ridge (lines 413-425): max_Stats reads ridges.low, which an
\* array does not have (AttributeError), before anything is written
fold_ridge_secs(dir) ==
    IF dir \in {"S", "N"}
    THEN << outer1(corner_of(dir, "W")), outer1(corner_of(dir, "E")),
            outer0(corner_of(dir, "W")), outer0(corner_of(dir, "E")) >>
    ELSE << outer0(corner_of("N", dir)), outer0(corner_of("S", dir)),
            outer1(corner_of("N", dir)), outer1(corner_of("S", dir)) >>
RECURSIVE fold_ridge_from(_, _, _, _, _)
fold_ridge_from(e, dir, idx, ridges, k) ==
    IF k > 4 THEN e
    ELSE fold_ridge_from(
             write_all(e, writes_at(CellSeq(e), idx,
                 [c \in idx |-> raise_stats(e, fold_ridge_secs(dir)[k], c, ridges.at[c])])),
             dir, idx, ridges, k + 1)
fold_ridge(e, dir, idx, ridges) ==
    IF ridges.cls # "StatsBase" THEN [e |-> e, exc |-> TRUE]
    ELSE [e |-> fold_ridge_from(e, dir, idx, ridges, 1), exc |-> FALSE]
\* ThinWalls.fold_ridge_equal (lines 427-430)
fold_ridge_equal(e, dir, idx, ridges) ==
    LET f == fold_ridge(e, dir, idx, ridges)
    IN  IF f.exc THEN f ELSE fold_ridge(f.e, od(dir), idx, ridges)

\* The six find_ridge calls of fold_ridges (lines 327-333), in order
RidgeCalls ==
    << <<"S", FALSE>>, <<"N", FALSE>>, <<"W", FALSE>>, <<"E", FALSE>>,
       <<"S", TRUE>>, <<"W", TRUE>> >>
\* with each, central[idx] as it was when the call began
RECURSIVE find_ridges(_, _, _)
find_ridges(e, k, adjust_centers) ==
    IF k > 6 THEN [e |-> e, found |-> <<>>]
    ELSE Bind(find_ridge(e, RidgeCalls[k][1], RidgeCalls[k][2], adjust_centers), LAMBDA f :
         Bind(find_ridges(f.e, k + 1, adjust_centers), LAMBDA rest :
             [e |-> rest.e,
              found |-> << [dir |-> RidgeCalls[k][1], equal |-> RidgeCalls[k][2],
                            idx |-> f.idx, ridges |-> f.ridges,
                            central |-> [c \in f.idx |-> central(e, RidgeCalls[k][1], c)]] >>
                        \o rest.found]))
RECURSIVE fold_found(_, _)
fold_found(e, found) ==
    IF found = <<>> THEN [e |-> e, exc |-> FALSE]
    ELSE LET f == IF found[1].equal
                  THEN fold_ridge_equal(e, found[1].dir, found[1].idx, found[1].ridges)
                  ELSE fold_ridge(e, found[1].dir, found[1].idx, found[1].ridges)
         IN  IF f.exc THEN f ELSE fold_found(f.e, Tail(found))
\* ThinWalls.fold_ridges (lines 325-348): the fields, and whether it raised
fold_ridges(e, adjust_centers) ==
    Bind(find_ridges(e, 1, adjust_centers), LAMBDA f : fold_found(f.e, f.found))

\* limit_corner_connections (lines 1175-1215): [U, V] after the call
limit_corner_connections(U, V, sw, se, ne, nw) ==
    LET NJ == Rows(U) \div 2
        NI == Cols(V) \div 2
        cells == (0..(NJ - 1)) \X (0..(NI - 1))
        n(x) == Min2(At(V, 2 * x[1] + 2, 2 * x[2]), At(V, 2 * x[1] + 2, 2 * x[2] + 1))
        s(x) == Min2(At(V, 2 * x[1], 2 * x[2]), At(V, 2 * x[1], 2 * x[2] + 1))
        e(x) == Min2(At(U, 2 * x[1], 2 * x[2] + 2), At(U, 2 * x[1] + 1, 2 * x[2] + 2))
        w(x) == Min2(At(U, 2 * x[1], 2 * x[2]), At(U, 2 * x[1] + 1, 2 * x[2]))
        face(A, sel, c, dj, di, ej, ei) == raise_at(raise_at(A, sel, c, dj, di), sel, c, ej, ei)
        sw_s == {x \in cells : At(sw, x[1], x[2]) > Max2(s(x), w(x)) /\ s(x) >= w(x)}
        sw_w == {x \in cells : At(sw, x[1], x[2]) > Max2(s(x), w(x)) /\ s(x) <= w(x)}
        se_s == {x \in cells : At(se, x[1], x[2]) > Max2(s(x), e(x)) /\ s(x) >= e(x)}
        se_e == {x \in cells : At(se, x[1], x[2]) > Max2(s(x), e(x)) /\ s(x) <= e(x)}
        ne_n == {x \in cells : At(ne, x[1], x[2]) > Max2(n(x), e(x)) /\ n(x) >= e(x)}
        ne_e == {x \in cells : At(ne, x[1], x[2]) > Max2(n(x), e(x)) /\ n(x) <= e(x)}
        nw_n == {x \in cells : At(nw, x[1], x[2]) > Max2(n(x), w(x)) /\ n(x) >= w(x)}
        nw_w == {x \in cells : At(nw, x[1], x[2]) > Max2(n(x), w(x)) /\ n(x) <= w(x)}
        V1 == face(V, sw_s, sw, 0, 0, 0, 1)
        U1 == face(U, sw_w, sw, 0, 0, 1, 0)
        V2 == face(V1, se_s, se, 0, 0, 0, 1)
        U2 == face(U1, se_e, se, 0, 2, 1, 2)
        V3 == face(V2, ne_n, ne, 2, 0, 2, 1)
        U3 == face(U2, ne_e, ne, 0, 2, 1, 2)
        V4 == face(V3, nw_n, nw, 2, 0, 2, 1)
        U4 == face(U3, nw_w, nw, 0, 0, 1, 0)
    IN  [U |-> U4, V |-> V4]


----------------------------------------------------------------------------
(* The rule stages, each called on fields prepared by set_cell_mean,         *)
(* set_edge_mean and init_effective_values: one coarse cell with its twelve  *)
(* edges, or two coarse cells side by side or one above the other.           *)

\* One coarse cell: the inner edges S, N (u) and W, E (v) and the two outer
\* edges of each corner
Levels == {0, Metre, 2 * Metre}
CellU(sw, se, nw, ne, s, n) == << <<sw, s, se>>, <<nw, n, ne>> >>
CellV(sw, se, nw, ne, w, e) == << <<sw, se>>, <<w, e>>, <<nw, ne>> >>
FlatCells == Arr2(2, 2, LAMBDA j, i : 0)
StepCells == Arr2(2, 2, LAMBDA j, i : j * Metre)
\* inner edges at any level; corners at 2 m, but for one at 1 m or none
CornerLevels == {[k \in 1..4 |-> IF k = d THEN Metre ELSE 2 * Metre] : d \in 0..4}
WideFields ==
    { <<FlatCells, CellU(o[1], o[2], o[3], o[4], r[1], r[2]),
        CellV(o[1], o[2], o[3], o[4], r[3], r[4])>> :
      o \in CornerLevels, r \in [1..4 -> Levels] }
\* Inner edges <<S, N, W, E>> that make a corner, a buttress, a ridge or
\* nothing
InnerEdgeData ==
    { <<Metre, 0, Metre, 0>>, <<Metre, 0, 0, Metre>>, <<0, Metre, Metre, 0>>,
      <<0, Metre, 0, Metre>>, <<Metre, 0, 0, 0>>, <<0, 0, Metre, Metre>>,
      <<0, 0, 0, 0>>, <<Metre, Metre, Metre, Metre>> }
\* inner edges and cells at 0 m or 1 m, outer edges at 0 m
SeedFields ==
    { <<c, CellU(0, 0, 0, 0, r[1], r[2]), CellV(0, 0, 0, 0, r[3], r[4])>> :
      c \in {FlatCells, StepCells}, r \in InnerEdgeData }
\* Two coarse cells in a row, outer edges at 0 m, and the same in a column
RowFields ==
    { <<Arr2(2, 4, LAMBDA j, i : 0),
        << <<0, a[1], 0, b[1], 0>>, <<0, a[2], 0, b[2], 0>> >>,
        << <<0, 0, 0, 0>>, <<a[3], a[4], b[3], b[4]>>, <<0, 0, 0, 0>> >> >> :
      a \in [1..4 -> {0, Metre}], b \in InnerEdgeData }
ColumnFields == { <<np_T(f[1]), np_T(f[3]), np_T(f[2])>> : f \in RowFields }
RuleFields == WideFields \cup SeedFields \cup RowFields \cup ColumnFields

\* ThinWalls(shape); set_cell_mean(data); set_edge_mean(datau, datav);
\* init_effective_values()
Prepare ==
    /\ calls = <<>>
    /\ \E f \in RuleFields :
          tw' = init_effective_values(
                    set_edge_mean(set_cell_mean(ThinWalls_Stats(Rows(f[1]), Cols(f[1])), f[1]),
                                  f[2], f[3]))
    /\ calls' = << Called("ThinWalls", FALSE), Called("set_cell_mean", FALSE),
                   Called("set_edge_mean", FALSE), Called("init_effective_values", FALSE) >>

\* A stage that raised leaves the fields as they were when it raised
raised(self, r) == [with_effective(self, r.e) EXCEPT !.exc = r.exc]

PushCornersV2 ==
    /\ AtStages
    /\ \E adjust_centers, matlab \in BOOLEAN :
          /\ tw' = with_effective(tw, push_corners_v2(effective(tw), adjust_centers, matlab))
          /\ calls' = Append(calls, [name |-> "push_corners_v2", arg |-> matlab,
                                     opt |-> adjust_centers])

PushCorners ==
    /\ AtStages
    /\ \E update_interior_mean_max, matlab \in BOOLEAN :
          /\ tw' = with_effective(tw, push_corners(effective(tw), update_interior_mean_max,
                                                   matlab))
          /\ calls' = Append(calls, [name |-> "push_corners", arg |-> matlab,
                                     opt |-> update_interior_mean_max])

LowerButtressGrid ==
    /\ AtStages
    /\ \E adjust_mean \in BOOLEAN :
          /\ tw' = raised(tw, lower_buttress_grid(effective(tw), adjust_mean))
          /\ calls' = Append(calls, Called("lower_buttress", adjust_mean))

FoldRidges ==
    /\ AtStages
    /\ \E adjust_centers \in BOOLEAN :
          /\ tw' = raised(tw, fold_ridges(effective(tw), adjust_centers))
          /\ calls' = Append(calls, Called("fold_ridges", adjust_centers))

\* fold_out_central_ridges is modelled on one coarse cell
FoldOutCentralRidgesCell ==
    /\ AtStages
    /\ tw.nj = 2 /\ tw.ni = 2
    /\ FoldOutCentralRidges

InvertExteriorCorners ==
    /\ AtStages
    /\ \E matlab \in BOOLEAN :
          /\ tw' = with_effective(tw, invert_exterior_corners(effective(tw), matlab))
          /\ calls' = Append(calls, Called("invert_exterior_corners", matlab))

\* The deepest connections asked for are the same in every coarse cell
Connection(t, v) == Arr2(t.nj \div 2, t.ni \div 2, LAMBDA j, i : v)
LimitNSEWConnections ==
    /\ AtStages
    /\ \E a, b \in {Metre, 2 * Metre} :
       \E r \in {limit_NS_EW_connections(tw.u_effective.low, tw.v_effective.low,
                                         Connection(tw, a), Connection(tw, b))} :
          tw' = [tw EXCEPT !.u_effective.low = r.U, !.v_effective.low = r.V]
    /\ calls' = Append(calls, Called("limit_NS_EW_connections", FALSE))

LimitCornerConnections ==
    /\ AtStages
    /\ \E a, b \in {Metre, 2 * Metre} :
       \E r \in {limit_corner_connections(tw.u_effective.low, tw.v_effective.low,
                                          Connection(tw, a), Connection(tw, b),
                                          Connection(tw, a), Connection(tw, b))} :
          tw' = [tw EXCEPT !.u_effective.low = r.U, !.v_effective.low = r.V]
    /\ calls' = Append(calls, Called("limit_corner_connections", FALSE))

InitRule == MeshIdle /\ LoopIdle /\ TWIdle /\ PathIdle /\ StoreIdle

NextRule ==
    /\ \/ Prepare
       \/ PushCornersV2
       \/ PushCorners
       \/ LowerButtressGrid
       \/ FoldRidges
       \/ FoldOutCentralRidgesCell
       \/ InvertExteriorCorners
       \/ LimitNSEWConnections
       \/ LimitCornerConnections
       \/ BoundHbyUV
       \/ FillPotHoles
       \/ Coarsen
    /\ UNCHANGED <<meshVars, loopVars, pathVars, storeVars>>

SpecRule == InitRule /\ [][NextRule]_vars


----------------------------------------------------------------------------
(* Properties of the rule stages.  After the first stage called on prepared  *)
(* fields, the simple fields are the effective fields the stage started from *)

simple(self) == [C |-> self.c_simple, U |-> self.u_simple, V |-> self.v_simple]
FirstStage(name) == LastCall = name /\ Len(StagesOf(calls)) = 1
\* the element of u_effective or v_effective that sec(d) has at cell c
elem(d, c) == << sec(d).f, 2 * c[1] + sec(d).j, 2 * c[2] + sec(d).i >>
InnerEdges == {"S", "N", "W", "E"}
FineCells == {"SW", "SE", "NW", "NE"}
OuterEdges == {"SWS", "SES", "NWN", "NEN", "SWW", "SEE", "NWW", "NEE"}
CornerSet == {"SW", "SE", "NW", "NE"}
SameAt(a, b, D, c) == \A d \in D : stats_at(a, d, c) = stats_at(b, d, c)

\* The corner D of cell c has the highest sill: the lower of its two inner
\* edges is above both inner edges of the opposite corner
HighCorner(b, D, c) ==
    \A x \in {dir0(D), dir1(D)} : \A y \in InnerEdges \ {dir0(D), dir1(D)} :
        sec_at(b, x, "low", c) > sec_at(b, y, "low", c)
OppositeRidge(b, D, c) ==
    SetMax({sec_at(b, y, "low", c) : y \in InnerEdges \ {dir0(D), dir1(D)}})
\* the pushes of a call: the high corners, with their cell
Pushes(b) == {p \in CornerSet \X CellsOf(b) : HighCorner(b, p[1], p[2])}
\* the statistics of an outer edge element x after every push next to it has
\* raised it
Pushed(b, x, before) ==
    LET next == {p \in Pushes(b) : x \in {elem(outer0(p[1]), p[2]), elem(outer1(p[1]), p[2])}}
    IN  [m \in Measures |->
            SetMax({before[m]} \cup {corner_inner(b, p[1], p[2])[m] : p \in next})]

\* C22: push_corners_v2 lowers the two inner edges of every high corner to
\* the opposite ridge (low, and ave and hgh unless matlab), raises the two
\* outer edges next to the corner to the maximum of what they were and the
\* statistics the inner corner had, and leaves the other coarse cells as
\* they were
C22_PushCornersV2 ==
    FirstStage("push_corners_v2") =>
        LET b == simple(tw)
            a == effective(tw)
            matlab == calls[Len(calls)].arg
        IN  /\ \A p \in Pushes(b) : \A x \in {dir0(p[1]), dir1(p[1])} :
                  LET r == OppositeRidge(b, p[1], p[2])
                  IN  stats_at(a, x, p[2]) =
                          IF matlab THEN [stats_at(b, x, p[2]) EXCEPT !.low = r]
                          ELSE [low |-> r, ave |-> r, hgh |-> r]
            /\ \A c \in CellsOf(b) : \A d \in OuterEdges :
                  stats_at(a, d, c) = Pushed(b, elem(d, c), stats_at(b, d, c))
            /\ \A c \in CellsOf(b) :
                  (\A D \in CornerSet : <<D, c>> \notin Pushes(b))
                      => SameAt(a, b, InnerEdges \cup FineCells, c)
\* push_corners_v2 has pushed a corner out: an outer edge was raised
C22_CornerPushed ==
    /\ FirstStage("push_corners_v2")
    /\ \E p \in Pushes(simple(tw)) :
          /\ sec_at(effective(tw), outer0(p[1]), "low", p[2])
                 > sec_at(simple(tw), outer0(p[1]), "low", p[2])
          /\ sec_at(effective(tw), dir0(p[1]), "low", p[2])
                 < sec_at(simple(tw), dir0(p[1]), "low", p[2])
\* two coarse cells next to each other have raised the edge between them
C22_SharedEdgePushed ==
    /\ FirstStage("push_corners_v2")
    /\ \E p, q \in Pushes(simple(tw)) :
          /\ p[2] # q[2]
          /\ elem(outer1(p[1]), p[2]) = elem(outer1(q[1]), q[2])



\* The orders in which the four corners can be processed
Orders == {o \in [1..4 -> CornerSet] : \A j, k \in 1..4 : j # k => o[j] # o[k]}
\* no coarse cell is in the idx of two corners
OneCornerPerCell(found) ==
    \A j, k \in 1..Len(found) : j # k => found[j].idx \cap found[k].idx = {}

\* C29: in a call of push_corners_v2 or of push_corners every coarse cell is
\* selected for at most one corner, and the fields the call leaves are the
\* same for every order of the four corners
C29_OneCornerAnyOrder ==
    /\ FirstStage("push_corners_v2") =>
          \A o \in Orders :
              LET r == push_corners_in(simple(tw), o, calls[Len(calls)].opt,
                                       calls[Len(calls)].arg)
              IN  OneCornerPerCell(r.found) /\ r.e = effective(tw)
    /\ FirstStage("push_corners") =>
          \A o \in Orders :
              LET r == push_corners_in_order(simple(tw), o, calls[Len(calls)].opt,
                                             calls[Len(calls)].arg)
              IN  OneCornerPerCell(r.found) /\ r.e = effective(tw)
\* push_corners has pushed two corners in two coarse cells
C29_TwoCornersPushed ==
    /\ FirstStage("push_corners")
    /\ \E p, q \in Pushes(simple(tw)) : p[1] # q[1] /\ p[2] # q[2]
    /\ effective(tw).U.low # simple(tw).U.low
\* push_corners_v2 has pushed a corner other than the first one
C29_LaterCornerPushed ==
    /\ FirstStage("push_corners_v2")
    /\ \E p \in Pushes(simple(tw)) : p[1] = "NE"
    /\ effective(tw).V.low # simple(tw).V.low


\* The depth of the exterior corner D of a coarse cell (the higher of its two
\* outer edges) and the sill of its interior corner (the lower of its two
\* inner edges)
ExteriorDepth(b, D, c) ==
    SetMax({sec_at(b, outer0(D), "low", c), sec_at(b, outer1(D), "low", c)})
InteriorSill(b, D, c) ==
    SetMin({sec_at(b, dir0(D), "low", c), sec_at(b, dir1(D), "low", c)})
\* D is the deepest exterior corner of cell c
DeepestCorner(b, D, c) ==
    /\ \A D2 \in CornerSet \ {D} : ExteriorDepth(b, D, c) < ExteriorDepth(b, D2, c)
    /\ ExteriorDepth(b, D, c) < InteriorSill(b, D, c)
Inversions(b) == {p \in CornerSet \X CellsOf(b) : DeepestCorner(b, p[1], p[2])}
InteriorLowered(b, a, p) ==
    \A x \in InnerEdges :
        /\ sec_at(a, x, "low", p[2]) <= ExteriorDepth(b, p[1], p[2])
        /\ sec_at(a, x, "low", p[2]) <= sec_at(b, x, "low", p[2])

\* C25: invert_exterior_corners, in both modes, leaves each of the four
\* interior edges of a cell selected for corner D at most at d_D and at most
\* at what it was, and selects at most one corner of a coarse cell
C25_InteriorOnlyLowered ==
    FirstStage("invert_exterior_corners") =>
        /\ \A p \in Inversions(simple(tw)) : InteriorLowered(simple(tw), effective(tw), p)
        /\ \A p, q \in Inversions(simple(tw)) : p[2] = q[2] => p[1] = q[1]
\* The same without matlab, and the part of it that holds with matlab: the
\* interior edges are at most at d_D, one corner is selected
C25_LoweredWithoutMatlab ==
    FirstStage("invert_exterior_corners") =>
        /\ \A p \in Inversions(simple(tw)) :
              IF calls[Len(calls)].arg
              THEN \A x \in InnerEdges :
                      sec_at(effective(tw), x, "low", p[2])
                          = ExteriorDepth(simple(tw), p[1], p[2])
              ELSE InteriorLowered(simple(tw), effective(tw), p)
        /\ \A p, q \in Inversions(simple(tw)) : p[2] = q[2] => p[1] = q[1]
        /\ \A D \in CornerSet : deepest_idx(simple(tw), D)
                                   = {c \in CellsOf(simple(tw)) : <<D, c>> \in Inversions(simple(tw))}
\* with matlab an interior edge below d_D was raised to d_D
C25_InteriorRaised ==
    /\ FirstStage("invert_exterior_corners")
    /\ calls[Len(calls)].arg
    /\ \E p \in Inversions(simple(tw)) : \E x \in InnerEdges :
          sec_at(effective(tw), x, "low", p[2]) > sec_at(simple(tw), x, "low", p[2])
\* without matlab a corner was inverted: interior edges lowered to d_D
C25_InteriorLoweredTo ==
    /\ FirstStage("invert_exterior_corners")
    /\ ~calls[Len(calls)].arg
    /\ \E p \in Inversions(simple(tw)) : \E x \in InnerEdges :
          sec_at(effective(tw), x, "low", p[2]) < sec_at(simple(tw), x, "low", p[2])


\* lower_buttress as described, on the four buttresses st of one coarse
\* cell: a side whose low is above the lows of the other three is set to the
\* highest of them, and its ave to the highest of their aves when adjust_mean
ButtressLowered(st, D, adjust_mean) ==
    LET O3(m) == SetMax({st[x][m] : x \in InnerEdges \ {D}})
    IN  IF st[D].low > O3("low")
        THEN [st EXCEPT ![D].low = O3("low"),
                        ![D].ave = IF adjust_mean THEN O3("ave") ELSE @]
        ELSE st
ButtressesLowered(b, c, adjust_mean) ==
    LET st0 == [x \in InnerEdges |-> stats_at(b, x, c)]
        st1 == ButtressLowered(st0, "S", adjust_mean)
        st2 == ButtressLowered(st1, "N", adjust_mean)
        st3 == ButtressLowered(st2, "W", adjust_mean)
    IN  ButtressLowered(st3, "E", adjust_mean)
LowerButtressDone(t) ==
    /\ ~t.exc
    /\ \A c \in CellsOf(simple(t)) :
          /\ \A x \in InnerEdges :
                stats_at(effective(t), x, c)
                    = ButtressesLowered(simple(t), c, calls[Len(calls)].arg)[x]
          /\ SameAt(effective(t), simple(t), OuterEdges \cup FineCells, c)
ManyCells(t) == t.nj > 2 \/ t.ni > 2

\* C23: on a grid of any number of coarse cells lower_buttress completes, the
\* sides S, N, W, E of every coarse cell are lowered in turn as described and
\* nothing else is changed
C23_LowerButtressOnGrid == FirstStage("lower_buttress") => LowerButtressDone(tw)
\* The same on one coarse cell, or without adjust_mean; on more cells with
\* adjust_mean the call raises
C23_LowerButtressOneCell ==
    FirstStage("lower_buttress") =>
        IF ManyCells(tw) /\ calls[Len(calls)].arg THEN tw.exc ELSE LowerButtressDone(tw)
\* lower_buttress(adjust_mean=True) raised on two coarse cells, the low of
\* the southern buttress of one of them lowered and its ave left
C23_RaisedOnTwoCells ==
    /\ FirstStage("lower_buttress") /\ calls[Len(calls)].arg /\ ManyCells(tw) /\ tw.exc
    /\ \E c \in CellsOf(simple(tw)) :
          /\ sec_at(effective(tw), "S", "low", c) < sec_at(simple(tw), "S", "low", c)
          /\ sec_at(effective(tw), "S", "ave", c) = sec_at(simple(tw), "S", "ave", c)
\* lower_buttress lowered a buttress and its mean on one coarse cell
C23_LoweredOnOneCell ==
    /\ FirstStage("lower_buttress") /\ calls[Len(calls)].arg /\ ~ManyCells(tw) /\ ~tw.exc
    /\ sec_at(effective(tw), "N", "ave", <<0, 0>>) < sec_at(simple(tw), "N", "ave", <<0, 0>>)
\* lower_buttress(adjust_mean=False) lowered buttresses of two coarse cells
C23_LoweredOnTwoCells ==
    /\ FirstStage("lower_buttress") /\ ~calls[Len(calls)].arg /\ ManyCells(tw) /\ ~tw.exc
    /\ \A c \in CellsOf(simple(tw)) :
          \E x \in InnerEdges :
              sec_at(effective(tw), x, "low", c) < sec_at(simple(tw), x, "low", c)


\* fold_ridges as described: the outer edges are raised by the statistics the
\* central ridge had before it was lowered
FoldedRidges(b, adjust_centers) ==
    LET f == find_ridges(b, 1, adjust_centers)
    IN  fold_found(f.e, [k \in 1..6 |->
                            [f.found[k] EXCEPT !.ridges = [cls |-> "StatsBase",
                                                           at |-> f.found[k].central]]])
\* The coarse cells with a ridge on side D, or with a ridge between equal sides
RidgeCells(b, D, equal) ==
    {c \in CellsOf(b) :
        LET ridge == IF D \in {"S", "N"} THEN {"W", "E"} ELSE {"N", "S"}
            lowest == SetMin({sec_at(b, x, "low", c) : x \in ridge})
        IN  /\ lowest > SetMin({sec_at(b, D, "low", c), sec_at(b, od(D), "low", c)})
            /\ lowest >= SetMax({sec_at(b, D, "low", c), sec_at(b, od(D), "low", c)})
            /\ IF equal THEN sec_at(b, D, "low", c) = sec_at(b, od(D), "low", c)
               ELSE sec_at(b, D, "low", c) > sec_at(b, od(D), "low", c)}

\* C24: fold_ridges completes, with the ridge edges of every selected cell
\* lowered to the lower buttress and the four outer edges of the side (of
\* both sides in the equal case) raised to the maximum of what they were and
\* the statistics of the central ridge
C24_FoldRidgesCompletes ==
    FirstStage("fold_ridges") =>
        /\ ~tw.exc
        /\ effective(tw) = FoldedRidges(simple(tw), calls[Len(calls)].arg).e
\* fold_ridges raises in every call, after the six find_ridge calls have
\* lowered the inner edges and before any outer edge is raised
C24_FoldRidgesRaises ==
    FirstStage("fold_ridges") =>
        /\ tw.exc
        /\ effective(tw) = find_ridges(simple(tw), 1, calls[Len(calls)].arg).e
        /\ \A c \in CellsOf(simple(tw)) : SameAt(effective(tw), simple(tw), OuterEdges, c)
\* A central ridge from west to east between level sides: the call raised,
\* the ridge is lowered and the outer edges north and south of it are not
\* raised
C24_RidgeLoweredNotFolded ==
    /\ FirstStage("fold_ridges") /\ tw.exc /\ ~ManyCells(tw)
    /\ <<0, 0>> \in RidgeCells(simple(tw), "S", TRUE)
    /\ \A x \in {"W", "E"} :
          sec_at(effective(tw), x, "low", <<0, 0>>) < sec_at(simple(tw), x, "low", <<0, 0>>)
    /\ \A d \in {"SWS", "SES", "NWN", "NEN"} :
          sec_at(effective(tw), d, "low", <<0, 0>>) < sec_at(simple(tw), "W", "low", <<0, 0>>)
\* A ridge with the higher buttress on its southern side, west to east
C24_SideRidgeLowered ==
    /\ FirstStage("fold_ridges") /\ tw.exc
    /\ \E c \in RidgeCells(simple(tw), "S", FALSE) :
          sec_at(effective(tw), "S", "low", c) < sec_at(simple(tw), "S", "low", c)


\* The rule stages of which the outer edges are never lowered
RaisingStages == StageNames \ {"fold_ridges"}
\* the outer edges: U at the even columns, V at the even rows
OuterLowsKept(t, t1) ==
    /\ \A j \in 0..(t.nj - 1), i \in 0..t.ni :
          i % 2 = 0 => At(t1.u_effective.low, j, i) >= At(t.u_effective.low, j, i)
    /\ \A j \in 0..t.nj, i \in 0..(t.ni - 1) :
          j % 2 = 0 => At(t1.v_effective.low, j, i) >= At(t.v_effective.low, j, i)
RaisingStep ==
    /\ HasCalled("init_effective_values") /\ ~HasCalled("coarsen")
    /\ Len(calls') = Len(calls) + 1
    /\ calls'[Len(calls')].name \in RaisingStages

\* C30: along any sequence of rule stages after init_effective_values no
\* stage lowers the effective low of an outer edge, and the coarse effective
\* lows that coarsen returns are at least the coarse simple lows
C30_OuterEdgesNeverLowered ==
    /\ [][RaisingStep => OuterLowsKept(tw, tw')]_vars
    /\ [](HasCalled("coarsen") =>
              /\ ArrGE(tw.u_effective.low, tw.u_simple.low)
              /\ ArrGE(tw.v_effective.low, tw.v_simple.low))
\* a second stage has raised an outer edge that the first had raised
C30_RaisedTwice ==
    /\ Len(StagesOf(calls)) = 2 /\ ~HasCalled("coarsen")
    /\ calls[Len(calls) - 1].name = "push_corners_v2"
    /\ LastCall = "limit_NS_EW_connections"
    /\ At(tw.v_effective.low, 0, 0) > Metre
    /\ At(tw.v_simple.low, 0, 0) = 0
\* coarsen after two stages: a coarse effective low above the simple one
C30_CoarseAboveSimple ==
    /\ LastCall = "coarsen" /\ Len(StagesOf(calls)) = 2
    /\ At(tw.u_effective.low, 0, 0) > At(tw.u_simple.low, 0, 0)


----------------------------------------------------------------------------
(* Properties of the hit test along the chain of refine_loop *)

\* The entry of the hit test of the k-th mesh of the chain when it is taken
\* with the given use_center
entry_with(k, use_center) ==
    hits_entry(source_hits(GMesh_list[k], opts.src_lon, opts.src_lat, use_center,
                           opts.singularity_radius),
               opts.fixed_refine_level)

CenterCall == Running /\ opts.fixed_refine_level < 1 /\ opts.use_center

\* C26: when refine_loop is called with use_center=True, the hit test of every
\* mesh of the chain, the input mesh and each refined mesh, is the one computed
\* from the interpolated cell centres.
C26_EveryMeshFromCenters ==
    CenterCall => \A k \in 1..Len(hits_log) : hits_log[k] = entry_with(k, TRUE)

\* What the calls of lines 488 and 522 do: the input mesh is tested on its cell
\* centres, every refined mesh on its nodes
C26_RefinedMeshesFromNodes ==
    CenterCall =>
        /\ hits_log[1] = entry_with(1, TRUE)
        /\ \A k \in 2..Len(hits_log) : hits_log[k] = entry_with(k, FALSE)

\* A call with use_center=True where the test of a refined mesh on its centres
\* would have counted other cells than the test the loop ran
C26_RefinedTestDiffers ==
    /\ CenterCall
    /\ \E k \in 2..Len(hits_log) :
          /\ hits_log[k] = entry_with(k, FALSE)
          /\ entry_with(k, TRUE).nhits # hits_log[k].nhits


----------------------------------------------------------------------------
(* The N-S pathways against the bottleneck over the paths of a coarse cell *)

\* The four fine cells of a coarse cell and the interior segments between them
Quarters == {"sw", "se", "nw", "ne"}
Neighbours == { {"sw", "se"}, {"nw", "ne"}, {"sw", "nw"}, {"se", "ne"} }

\* low of the interior segment between two neighbouring fine cells of the
\* coarse cell (j, i)
segment_low(U, V, j, i, pair) ==
    IF pair = {"sw", "se"} THEN At(U, 2 * j, 2 * i + 1)
    ELSE IF pair = {"nw", "ne"} THEN At(U, 2 * j + 1, 2 * i + 1)
    ELSE IF pair = {"sw", "nw"} THEN At(V, 2 * j + 1, 2 * i)
    ELSE At(V, 2 * j + 1, 2 * i + 1)

\* low of the outer V edge south of a south fine cell, north of a north one
south_edge_low(V, j, i, q) == At(V, 2 * j, 2 * i + (IF q = "se" THEN 1 ELSE 0))
north_edge_low(V, j, i, q) == At(V, 2 * j + 2, 2 * i + (IF q = "ne" THEN 1 ELSE 0))

\* The simple paths through the fine cells from one fine cell to another
SimplePaths(from, to) ==
    { p \in UNION { [1..n -> Quarters] : n \in 1..4 } :
        /\ p[1] = from /\ p[Len(p)] = to
        /\ \A a, b \in 1..Len(p) : a # b => p[a] # p[b]
        /\ \A a \in 1..(Len(p) - 1) : {p[a], p[a + 1]} \in Neighbours }

\* The highest low met along a path, the entrance and the exit included
path_sill(U, V, j, i, p) ==
    SetMax({south_edge_low(V, j, i, p[1]), north_edge_low(V, j, i, p[Len(p)])}
           \cup {segment_low(U, V, j, i, {p[a], p[a + 1]}) : a \in 1..(Len(p) - 1)})

Bottleneck(U, V, j, i, from, to) ==
    SetMin({path_sill(U, V, j, i, p) : p \in SimplePaths(from, to)})

\* The entrance and exit cells of the values in the order of the return
PathEnds == << <<"se", "ne">>, <<"se", "nw">>, <<"sw", "ne">>, <<"sw", "nw">> >>

PathwaysDiagnosed == pw.phase \in {"diagnosed", "rediagnosed"}

\* C27: for every coarse cell each of the four values of diagnose_NS_pathways
\* (se_to_ne, se_to_nw, sw_to_ne, sw_to_nw) is the minimum, over all simple
\* paths through the four fine cells from the entrance cell to the exit cell,
\* of the maximum low among the south outer entrance edge, the interior
\* segments crossed and the north outer exit edge.
C27_PathwaysAreBottlenecks ==
    PathwaysDiagnosed =>
        \A j \in 0..(Rows(pw.U) \div 2 - 1), i \in 0..(Cols(pw.V) \div 2 - 1) :
        \A k \in 1..4 :
            At(pw.diag.NS[k], j, i) = Bottleneck(pw.U, pw.V, j, i, PathEnds[k][1], PathEnds[k][2])

\* A cell whose gate from se to ne is closed while the way round through sw and
\* nw is open: the value of se_to_ne is the one of the path of three segments
C27_WayRoundIsDeeper ==
    /\ PathwaysDiagnosed
    /\ Rows(pw.U) = 2 /\ Cols(pw.V) = 2
    /\ At(pw.V, 1, 1) = 1
    /\ path_sill(pw.U, pw.V, 0, 0, <<"se", "sw", "nw", "ne">>) = 0
    /\ At(pw.diag.NS[1], 0, 0) = 0
    /\ At(pw.diag.NS[2], 0, 0) = 0


----------------------------------------------------------------------------
(* GMesh.transpose, GMesh.rotate and GMesh.copy *)

\* transpose (lines 166-171): nj and ni change places, lat becomes the
\* transposed lon and lon the transposed lat; np_index is not assigned
transpose(self) ==
    [self EXCEPT !.ni = self.nj, !.nj = self.ni,
                 !.lat = np_T(self.lon), !.lon = np_T(self.lat)]

\* The angles of rotate whose result is exact in degrees: half a turn about
\* the Y-axis takes (X, Y, Z) to (-X, Y, -Z), a turn about the Z-axis adds to
\* the longitude
YRots == {0, 180 * Deg}
ZRots == {0, 90 * Deg}
\* At a node that the Y-rotation brings to a pole X and Y are roundoff, and so
\* is the longitude that arccos and the sign of Y make of them
PoleLons == {0, 90 * Deg}

\* One node through __lonlat_to_XYZ, the two rotations and __XYZ_to_lonlat
rotate_node(lon, lat, y_rot, z_rot, pole_lon) ==
    LET p == on_sphere(lon, lat)
        l0 == XYZ_wrap_lon(p[1])
        ly == IF y_rot = 0 THEN l0
              ELSE IF l0 >= 0 THEN 180 * Deg - l0 ELSE -180 * Deg - l0
        lt == IF y_rot = 0 THEN p[2] ELSE -p[2]
    IN  << IF AtPole(lt) /\ y_rot # 0 THEN pole_lon ELSE XYZ_wrap_lon(ly + z_rot), lt >>

\* rotate (lines 412-427): lon and lat are assigned, np_index is not; returns self
rotate(self, y_rot, z_rot, pole_lon) ==
    [self EXCEPT
        !.lon = Arr2(Rows(self.lon), Cols(self.lon), LAMBDA j, i :
                     rotate_node(At(self.lon, j, i), At(self.lat, j, i), y_rot, z_rot, pole_lon)[1]),
        !.lat = Arr2(Rows(self.lat), Cols(self.lat), LAMBDA j, i :
                     rotate_node(At(self.lon, j, i), At(self.lat, j, i), y_rot, z_rot, pole_lon)[2])]

\* copy (lines 157-161): GMesh(shape=self.shape, lon=self.lon, lat=self.lat, area=self.area)
copy(self) ==
    GMesh_init(A1(<<self.nj, self.ni>>), A2(self.lon), A2(self.lat), -180 * Deg, FALSE, 0)

----------------------------------------------------------------------------
(* SpecMeshOps: one mesh is constructed and then refined, transposed,       *)
(* rotated and copied in any order                                          *)

\* mesh.transpose()
Transpose ==
    /\ IsMesh(mesh) /\ OpsDone < MaxMeshOps
    /\ mesh' = transpose(mesh)
    /\ parent' = mesh
    /\ op' = [name |-> "transpose", nj |-> mesh.nj, ni |-> mesh.ni, lon0 |-> 0,
              seq |-> OpsDone + 1]

\* mesh.rotate(y_rot=y_rot, z_rot=z_rot)
Rotate ==
    \E y_rot \in YRots, z_rot \in ZRots, pole_lon \in PoleLons :
        /\ IsMesh(mesh) /\ OpsDone < MaxMeshOps
        /\ mesh' = rotate(mesh, y_rot, z_rot, pole_lon)
        /\ parent' = mesh
        /\ op' = [name |-> "rotate", nj |-> mesh.nj, ni |-> mesh.ni, lon0 |-> 0,
                  y_rot |-> y_rot, z_rot |-> z_rot, seq |-> OpsDone + 1]

\* mesh = mesh.copy()
Copy ==
    /\ IsMesh(mesh) /\ OpsDone < MaxMeshOps
    /\ mesh' = copy(mesh)
    /\ parent' = mesh
    /\ op' = [name |-> "copy", nj |-> mesh.nj, ni |-> mesh.ni, lon0 |-> 0,
              seq |-> OpsDone + 1]

InitMeshOps == MeshIdle /\ LoopIdle /\ TWIdle /\ PathIdle /\ StoreIdle

NextMeshOps ==
    /\ \/ ConstructDefault
       \/ Construct1D
       \/ Construct2D
       \/ Refineby2
       \/ Transpose
       \/ Rotate
       \/ Copy
    /\ UNCHANGED <<loopVars, twVars, pathVars, storeVars>>

SpecMeshOps == InitMeshOps /\ [][NextMeshOps]_vars

----------------------------------------------------------------------------
(* Properties of np_index *)

\* The nodes (j, i) where the lat array of m is +90
PoleNodes(m) ==
    { x \in (0..(Rows(m.lat) - 1)) \X (0..(Cols(m.lat) - 1)) : At(m.lat, x[1], x[2]) = 90 * Deg }

\* np_index lists each of these nodes once and nothing else
ListsPoleNodes(m) ==
    /\ { m.np_index[k] : k \in 1..Len(m.np_index) } = PoleNodes(m)
    /\ Len(m.np_index) = Cardinality(PoleNodes(m))

\* C28: after any sequence of operations on a mesh (construction, refineby2,
\* rotate, transpose, copy), np_index is exactly the list of the node indices
\* (j, i) at which the current lat array of the mesh equals +90.
C28_NpIndexCurrent == IsMesh(mesh) => ListsPoleNodes(mesh)

\* np_index is the list of the nodes at +90 of the lat array the constructor
\* saw: it is current after a construction, refineby2 and copy, and it is the
\* one of the mesh before after transpose and rotate
C28_NpIndexAsConstructed ==
    IsMesh(mesh) =>
        IF op.name \in {"transpose", "rotate"}
        THEN mesh.np_index = parent.np_index
        ELSE ListsPoleNodes(mesh)

\* A transposed mesh whose np_index names a node that is not at +90
C28_StaleAfterTranspose ==
    /\ IsMesh(mesh) /\ op.name = "transpose"
    /\ ListsPoleNodes(parent)
    /\ \E k \in 1..Len(mesh.np_index) : mesh.np_index[k] \notin PoleNodes(mesh)

\* A rotated mesh with a node at +90 that np_index does not name
C28_PoleMissedAfterRotate ==
    /\ IsMesh(mesh) /\ op.name = "rotate"
    /\ ListsPoleNodes(parent)
    /\ \E x \in PoleNodes(mesh) : \A k \in 1..Len(mesh.np_index) : mesh.np_index[k] # x

\* A copy of a transposed or rotated mesh, whose np_index is current again
C28_CurrentAfterCopy ==
    /\ IsMesh(mesh) /\ op.name = "copy"
    /\ ~ListsPoleNodes(parent)
    /\ ListsPoleNodes(mesh)
    /\ mesh.np_index # <<>>

====
